---- MODULE Spec2Model ----
(***************************************************************************)
(* Model of key-overlay-rs: the Animation Engine (bars.rs), the Renderer's *)
(* state handling (renderer.rs), the layout calculator (layout.rs) and the *)
(* Frame Orchestrator with its two producer queues (app.rs), the process    *)
(* lifecycle of run (app.rs), the input thread (app.rs, input/backend.rs)   *)
(* and the ConfigWatcher (watcher.rs).                                      *)
(*                                                                         *)
(* Fixed-point units: positions and heights are tenths of a pixel, time is *)
(* tenths of a second, bar_speed is pixels per second; hence               *)
(* delta = bar_speed * dt is already in tenths of a pixel.  f32 rounding   *)
(* is not modelled.                                                        *)
(***************************************************************************)
EXTENDS Integers, Sequences, FiniteSets, TLC

VARIABLES
    \* Renderer / Animation Engine (renderer.rs, bars.rs)
    config,               \* Renderer.config
    key_positions,        \* Renderer.key_positions
    columns,              \* BarManager.columns : key name -> BarColumn
    bar_speed,            \* BarManager.bar_speed
    last_frame_time,      \* Renderer.last_frame_time (None or a time)
    \* AppOrchestrator (app.rs)
    escape_down,          \* AppOrchestrator.escape_down
    last_escape_press_at, \* AppOrchestrator.last_escape_press_at
    pc,                   \* position of the render thread inside gui_run
    events,               \* local Vec<InputEvent> of process_input_events
    should_close,         \* local should_close of process_input_events
    is_window_focused,    \* local is_window_focused of gui_run
    \* shared with the other threads
    input_q,              \* unbounded channel of InputEvent
    config_q,             \* unbounded channel of AppConfig
    shutdown_requested,   \* Arc<AtomicBool>
    window_should_close,  \* glfw window's should-close flag
    window_size,          \* glfw_backend.window_size_logical, <<width, height>>
    \* process lifecycle (app.rs run, run_input_backend; watcher.rs)
    run_pc,               \* position of the main thread inside run
    run_result,           \* None while run is running, then Some("Ok") or Some("Err")
    input_thread,         \* position of the input thread inside run_input_backend
    backend,              \* the InputBackend the input thread owns
    watcher,              \* the ConfigWatcher of run (None before it is constructed)
    \* environment
    now,                  \* monotonic clock read by Instant::now()
    sent,                 \* the input events the Input Source has sent so far
    reloads,              \* the file contents the Config Source has reloaded so far
    \* history (observation only; never read by the modelled code)
    last_op,              \* the operation performed by the last step
    pre_columns,          \* BarManager.columns before the last engine operation
    hist                  \* per-tick and detector observations

engineVars == <<config, key_positions, columns, bar_speed, last_frame_time>>
orchVars   == <<escape_down, last_escape_press_at, pc, events, should_close,
                is_window_focused>>
sharedVars == <<input_q, config_q, shutdown_requested, window_should_close>>
envVars    == <<now, sent, reloads>>
histVars   == <<last_op, pre_columns, hist>>
procVars   == <<run_pc, run_result, input_thread, backend, watcher>>
vars       == <<engineVars, orchVars, sharedVars, envVars, histVars, procVars,
                window_size>>

\* Option<T>: None is the empty sequence, Some(x) a one-element sequence
None == << >>
Some(x) == <<x>>

----------------------------------------------------------------------------
\* Bounds of the model
MaxBars     == 2   \* bars alive at once in the engine-only specification
MaxPresses  == 3   \* on_key_press calls in the engine-only specification
MaxY        == 600 \* y_position cap in the engine-only specification
MaxEvents   == 3   \* input events the Input Source sends
MaxConfigs  == 2   \* reloads the Config Source performs
MaxKeys     == 3   \* configured keys in the layout-only specification
MaxWatcherCalls == 5 \* start/stop calls in the watcher-only specification
MaxDetectorEvents == 5 \* events in the detector-only specification
MaxRendererCalls == 4 \* calls in the renderer-only specification

----------------------------------------------------------------------------
\* Program constants (fixed-point)
BAR_INITIAL_Y      == 0     \* bars.rs:35  y_position: 0.0
BAR_INITIAL_HEIGHT == 10    \* bars.rs:36  height: 1.0
GOLDEN_RATIO       == 1618  \* types.rs:5  1.618, in thousandths
DOUBLE_ESCAPE_INTERVAL == 4 \* app.rs:25  400 ms
MAX_DT             == 1     \* renderer.rs:111  .min(0.1)
DEFAULT_HEIGHT     == 7000  \* types.rs:85
DEFAULT_KEY_SIZE   == 700   \* types.rs:86
DEFAULT_BAR_SPEED  == 600   \* types.rs:87
DEFAULT_MARGIN     == 250   \* types.rs:89
DEFAULT_OUTLINE    == 50    \* types.rs:90
DEFAULT_FPS        == 60    \* types.rs:93
SIZE_ONE           == 10    \* config.rs:121  size multiplier 1.0, in tenths
ESCAPE_KEY_NAME    == "Escape"  \* app.rs:24
WINDOW_SIZE_EPSILON == 5    \* renderer.rs:23  0.5, in tenths of a pixel

----------------------------------------------------------------------------
\* types.rs: Color.  r,g,b are abstracted to a name; alpha is in thousandths.
Red   == [rgb |-> "red",  a |-> 1000]
Cyan  == [rgb |-> "cyan", a |-> 1000]
Colors == {Red, Cyan}

\* Color::pressed
pressed(color) == [rgb |-> color.rgb, a |-> (color.a * 1000) \div GOLDEN_RATIO]

----------------------------------------------------------------------------
\* Generic helpers for sequences and maps
Last(s) == s[Len(s)]

MapPut(m, k, v) == [x \in (DOMAIN m) \cup {k} |-> IF x = k THEN v ELSE m[x]]

EmptyMap == [x \in {} |-> 0]

----------------------------------------------------------------------------
\* bars.rs: BarColumn

\* BarColumn::new
BarColumn_new(color) ==
    [bars |-> <<>>, press_count |-> 0, is_held |-> FALSE, color |-> color]

\* a variant that ignores a press of a key that is already held
BarColumn_on_key_press_repeat(col) ==
    IF col.is_held THEN col
    ELSE [col EXCEPT
            !.bars = Append(@, [y_position    |-> BAR_INITIAL_Y,
                                height        |-> BAR_INITIAL_HEIGHT,
                                color         |-> col.color,
                                pressed_color |-> pressed(col.color)]),
            !.press_count = @ + 1,
            !.is_held = TRUE]

\* a variant that puts the new bar in front of the others (Vec::insert(0, ..))
BarColumn_on_key_press_front(col) ==
    [col EXCEPT
        !.bars = <<[y_position    |-> BAR_INITIAL_Y,
                    height        |-> BAR_INITIAL_HEIGHT,
                    color         |-> col.color,
                    pressed_color |-> pressed(col.color)]>> \o @,
        !.press_count = @ + 1,
        !.is_held = TRUE]

\* BarColumn::on_key_press
BarColumn_on_key_press(col) ==
    [col EXCEPT
        !.bars = Append(@, [y_position    |-> BAR_INITIAL_Y,
                            height        |-> BAR_INITIAL_HEIGHT,
                            color         |-> col.color,
                            pressed_color |-> pressed(col.color)]),
        !.press_count = @ + 1,
        !.is_held = TRUE]

\* BarColumn::on_key_release
BarColumn_on_key_release(col) == [col EXCEPT !.is_held = FALSE]

\* a variant without the early return for dt <= 0
BarColumn_update_unguarded(col, dt, speed) ==
    LET delta == speed * dt
        moved == [i \in 1..Len(col.bars) |->
                    [col.bars[i] EXCEPT !.y_position = @ + delta]]
    IN  IF col.is_held /\ Len(moved) > 0
        THEN [col EXCEPT !.bars = [moved EXCEPT ![Len(moved)].height = @ + delta]]
        ELSE [col EXCEPT !.bars = moved]

\* a variant that grows every bar of a held column
BarColumn_update_grow_all(col, dt, speed) ==
    IF dt <= 0 THEN col
    ELSE LET delta == speed * dt
         IN  [col EXCEPT !.bars =
                [i \in 1..Len(col.bars) |->
                    [col.bars[i] EXCEPT
                        !.y_position = @ + delta,
                        !.height = IF col.is_held THEN @ + delta ELSE @]]]

\* a variant that grows the last bar whether or not the key is held
BarColumn_update_grow_released(col, dt, speed) ==
    IF dt <= 0 THEN col
    ELSE LET delta == speed * dt
             moved == [i \in 1..Len(col.bars) |->
                         [col.bars[i] EXCEPT !.y_position = @ + delta]]
         IN  IF Len(moved) > 0
             THEN [col EXCEPT !.bars =
                      [moved EXCEPT ![Len(moved)].height = @ + delta]]
             ELSE [col EXCEPT !.bars = moved]

\* BarColumn::update
BarColumn_update(col, dt, speed) ==
    IF dt <= 0 THEN col
    ELSE LET delta == speed * dt
             moved == [i \in 1..Len(col.bars) |->
                         [col.bars[i] EXCEPT !.y_position = @ + delta]]
         IN  IF col.is_held /\ Len(moved) > 0
             THEN [col EXCEPT !.bars =
                      [moved EXCEPT ![Len(moved)].height = @ + delta]]
             ELSE [col EXCEPT !.bars = moved]

\* a variant that also drops a bar exactly at window_height
BarColumn_remove_offscreen_strict(col, window_height) ==
    LET keep(bar) == bar.y_position < window_height
    IN  [col EXCEPT !.bars = SelectSeq(@, keep)]

\* a variant that culls by the far edge of the bar (y_position + height)
BarColumn_remove_offscreen_far_edge(col, window_height) ==
    LET keep(bar) == bar.y_position + bar.height <= window_height
    IN  [col EXCEPT !.bars = SelectSeq(@, keep)]

\* BarColumn::remove_offscreen
BarColumn_remove_offscreen(col, window_height) ==
    LET keep(bar) == bar.y_position <= window_height
    IN  [col EXCEPT !.bars = SelectSeq(@, keep)]

----------------------------------------------------------------------------
\* bars.rs: BarManager (columns is the HashMap, speed the bar_speed field)

\* a variant that stores a new column at every press (HashMap::insert)
BarManager_on_key_press_replace(cols, key, color) ==
    MapPut(cols, key, BarColumn_on_key_press(BarColumn_new(color)))

\* a variant that gives an existing column the colour passed with the press
BarManager_on_key_press_recolor(cols, key, color) ==
    LET column == IF key \in DOMAIN cols THEN [cols[key] EXCEPT !.color = color]
                  ELSE BarColumn_new(color)
    IN  MapPut(cols, key, BarColumn_on_key_press(column))

\* BarManager::on_key_press
BarManager_on_key_press(cols, key, color) ==
    LET column == IF key \in DOMAIN cols THEN cols[key] ELSE BarColumn_new(color)
    IN  MapPut(cols, key, BarColumn_on_key_press(column))

\* a variant that looks the column up with entry().or_insert_with()
BarManager_on_key_release_insert(cols, key) ==
    LET column == IF key \in DOMAIN cols THEN cols[key] ELSE BarColumn_new(Red)
    IN  MapPut(cols, key, BarColumn_on_key_release(column))

\* BarManager::on_key_release
BarManager_on_key_release(cols, key) ==
    IF key \in DOMAIN cols
    THEN [cols EXCEPT ![key] = BarColumn_on_key_release(@)]
    ELSE cols

\* BarManager::update
BarManager_update(cols, dt, speed) ==
    [k \in DOMAIN cols |-> BarColumn_update(cols[k], dt, speed)]

\* a variant that also drops the columns left without bars
BarManager_remove_offscreen_drop_empty(cols, window_height) ==
    LET culled == [k \in DOMAIN cols |->
                     BarColumn_remove_offscreen(cols[k], window_height)]
    IN  [k \in {x \in DOMAIN cols : culled[x].bars # << >>} |-> culled[k]]

\* BarManager::remove_offscreen
BarManager_remove_offscreen(cols, window_height) ==
    [k \in DOMAIN cols |-> BarColumn_remove_offscreen(cols[k], window_height)]

----------------------------------------------------------------------------
\* types.rs: AppConfig::default
DefaultKeys ==
    << [key_name |-> "Z", color |-> Red,  size |-> SIZE_ONE],
       [key_name |-> "X", color |-> Cyan, size |-> SIZE_ONE] >>

AppConfig_default ==
    [height |-> DEFAULT_HEIGHT, key_size |-> DEFAULT_KEY_SIZE,
     bar_speed |-> DEFAULT_BAR_SPEED, margin |-> DEFAULT_MARGIN,
     outline_thickness |-> DEFAULT_OUTLINE, fading |-> TRUE, counter |-> TRUE,
     fps |-> DEFAULT_FPS, keys |-> DefaultKeys]

\* config.rs: contents of the configuration file as RawConfig sees them.
\* A field absent from the file is None; parse_ok = FALSE is text that
\* toml::from_str (or a colour / key-name check) rejects.
RawA ==
    [parse_ok |-> TRUE, height |-> Some(600), key_size |-> Some(700), bar_speed |-> Some(600),
     margin |-> Some(250), outline_thickness |-> Some(50), fading |-> None, counter |-> None,
     fps |-> None,
     key |-> << [key_name |-> "Z", color |-> Red, size |-> SIZE_ONE],
                [key_name |-> ESCAPE_KEY_NAME, color |-> Cyan, size |-> 15] >>]
RawB ==
    [parse_ok |-> TRUE, height |-> Some(300), key_size |-> Some(500), bar_speed |-> Some(300),
     margin |-> Some(100), outline_thickness |-> Some(30), fading |-> Some(FALSE), counter |-> Some(FALSE),
     fps |-> Some(144),
     key |-> << [key_name |-> "Z", color |-> Cyan, size |-> 20],
                [key_name |-> "Mouse1", color |-> Red, size |-> SIZE_ONE] >>]
RawZeroSpeed ==
    [parse_ok |-> TRUE, height |-> Some(600), key_size |-> None, bar_speed |-> Some(0),
     margin |-> None, outline_thickness |-> None, fading |-> None,
     counter |-> None, fps |-> None, key |-> << >>]
RawNegSpeed == [RawA EXCEPT !.bar_speed = Some(-100)]
RawBad == [parse_ok |-> FALSE]

\* The successive contents of the configuration file: the Config Source
\* reloads a prefix of one of these sequences.
ReloadScripts ==
    { <<RawNegSpeed, RawB, RawZeroSpeed>>,
      <<RawBad, RawZeroSpeed, RawA>>,
      <<RawB, RawBad, RawA>> }

unwrap_or(opt, default) == IF opt = None THEN default ELSE opt[1]

\* config.rs: validate_config, as the set of warnings it returns
validate_config(cfg) ==
    (IF cfg.bar_speed <= 0 THEN {"bar_speed"} ELSE {})
    \cup (IF cfg.keys = << >> THEN {"keys"} ELSE {})

\* a variant that falls back to the default configuration when the text does
\* not parse
load_from_str_default_on_error(raw) ==
    IF ~raw.parse_ok THEN Some(AppConfig_default)
    ELSE LET defaults == AppConfig_default
             cfg == [height            |-> unwrap_or(raw.height, defaults.height),
                     key_size          |-> unwrap_or(raw.key_size, defaults.key_size),
                     bar_speed         |-> unwrap_or(raw.bar_speed, defaults.bar_speed),
                     margin            |-> unwrap_or(raw.margin, defaults.margin),
                     outline_thickness |-> unwrap_or(raw.outline_thickness,
                                                     defaults.outline_thickness),
                     fading            |-> unwrap_or(raw.fading, defaults.fading),
                     counter           |-> unwrap_or(raw.counter, defaults.counter),
                     fps               |-> unwrap_or(raw.fps, defaults.fps),
                     keys              |-> IF raw.key = << >> THEN defaults.keys
                                           ELSE raw.key]
         IN  IF "bar_speed" \in validate_config(cfg)
             THEN Some([cfg EXCEPT !.bar_speed = defaults.bar_speed])
             ELSE Some(cfg)

\* a variant that rejects the file when validate_config warns about bar_speed
load_from_str_reject_speed(raw) ==
    IF ~raw.parse_ok THEN None
    ELSE LET defaults == AppConfig_default
             cfg == [height            |-> unwrap_or(raw.height, defaults.height),
                     key_size          |-> unwrap_or(raw.key_size, defaults.key_size),
                     bar_speed         |-> unwrap_or(raw.bar_speed, defaults.bar_speed),
                     margin            |-> unwrap_or(raw.margin, defaults.margin),
                     outline_thickness |-> unwrap_or(raw.outline_thickness,
                                                     defaults.outline_thickness),
                     fading            |-> unwrap_or(raw.fading, defaults.fading),
                     counter           |-> unwrap_or(raw.counter, defaults.counter),
                     fps               |-> unwrap_or(raw.fps, defaults.fps),
                     keys              |-> IF raw.key = << >> THEN defaults.keys
                                           ELSE raw.key]
         IN  IF "bar_speed" \in validate_config(cfg) THEN None ELSE Some(cfg)

\* a variant that keeps the bar_speed of the file whatever validate_config says
load_from_str_keep_speed(raw) ==
    IF ~raw.parse_ok THEN None
    ELSE LET defaults == AppConfig_default
         IN  Some([height            |-> unwrap_or(raw.height, defaults.height),
                   key_size          |-> unwrap_or(raw.key_size, defaults.key_size),
                   bar_speed         |-> unwrap_or(raw.bar_speed, defaults.bar_speed),
                   margin            |-> unwrap_or(raw.margin, defaults.margin),
                   outline_thickness |-> unwrap_or(raw.outline_thickness,
                                                   defaults.outline_thickness),
                   fading            |-> unwrap_or(raw.fading, defaults.fading),
                   counter           |-> unwrap_or(raw.counter, defaults.counter),
                   fps               |-> unwrap_or(raw.fps, defaults.fps),
                   keys              |-> IF raw.key = << >> THEN defaults.keys
                                         ELSE raw.key])

\* config.rs: load_from_str; Ok(config) is Some(config), Err is None
load_from_str(raw) ==
    IF ~raw.parse_ok THEN None
    ELSE LET defaults == AppConfig_default
             cfg == [height            |-> unwrap_or(raw.height, defaults.height),
                     key_size          |-> unwrap_or(raw.key_size, defaults.key_size),
                     bar_speed         |-> unwrap_or(raw.bar_speed, defaults.bar_speed),
                     margin            |-> unwrap_or(raw.margin, defaults.margin),
                     outline_thickness |-> unwrap_or(raw.outline_thickness,
                                                     defaults.outline_thickness),
                     fading            |-> unwrap_or(raw.fading, defaults.fading),
                     counter           |-> unwrap_or(raw.counter, defaults.counter),
                     fps               |-> unwrap_or(raw.fps, defaults.fps),
                     keys              |-> IF raw.key = << >> THEN defaults.keys
                                           ELSE raw.key]
         IN  IF "bar_speed" \in validate_config(cfg)
             THEN Some([cfg EXCEPT !.bar_speed = defaults.bar_speed])
             ELSE Some(cfg)

----------------------------------------------------------------------------
\* layout.rs

\* calculate_column_width (size_multiplier is in tenths)
calculate_column_width(key_size, size_multiplier, outline_thickness, margin) ==
    ((key_size * size_multiplier) \div SIZE_ONE) + (outline_thickness * 2) + margin

\* calculate_window_width: the for loop from key i on, with the running total
RECURSIVE window_width_from(_, _, _)
window_width_from(cfg, i, total) ==
    IF i > Len(cfg.keys) THEN total
    ELSE window_width_from(cfg, i + 1,
             total + calculate_column_width(cfg.key_size, cfg.keys[i].size,
                                            cfg.outline_thickness, cfg.margin))

\* a variant whose total starts at 0 instead of the left margin
calculate_window_width_no_left_margin(cfg) == window_width_from(cfg, 1, 0)

\* calculate_window_width
calculate_window_width(cfg) == window_width_from(cfg, 1, cfg.margin)

\* calculate_key_x_positions
RECURSIVE key_x_positions_from(_, _, _)
key_x_positions_from(cfg, i, current_x) ==
    IF i > Len(cfg.keys) THEN << >>
    ELSE <<current_x>> \o
         key_x_positions_from(cfg, i + 1,
             current_x + calculate_column_width(cfg.key_size, cfg.keys[i].size,
                                                cfg.outline_thickness, cfg.margin))

\* a variant whose first offset is 0 instead of the left margin
calculate_key_x_positions_from_zero(cfg) == key_x_positions_from(cfg, 1, 0)

calculate_key_x_positions(cfg) == key_x_positions_from(cfg, 1, cfg.margin)

----------------------------------------------------------------------------
\* fading.rs (alpha in thousandths; the quotient is rounded down to a thousandth)

ALPHA_ONE == 1000  \* fading.rs:28  1.0

\* a variant whose fade_height <= 0 case is opaque up to and including the top
calculate_fade_alpha_inclusive_top(y_position, window_height, fade_height) ==
    IF fade_height <= 0
    THEN (IF y_position <= window_height THEN ALPHA_ONE ELSE 0)
    ELSE IF y_position <= window_height - fade_height THEN ALPHA_ONE
    ELSE IF y_position >= window_height THEN 0
    ELSE LET fade_start == window_height - fade_height
             distance_from_start == y_position - fade_start
         IN  ALPHA_ONE - (distance_from_start * ALPHA_ONE) \div fade_height

\* calculate_fade_alpha
calculate_fade_alpha(y_position, window_height, fade_height) ==
    IF fade_height <= 0
    THEN (IF y_position < window_height THEN ALPHA_ONE ELSE 0)
    ELSE IF y_position <= window_height - fade_height THEN ALPHA_ONE
    ELSE IF y_position >= window_height THEN 0
    ELSE LET fade_start == window_height - fade_height
             distance_from_start == y_position - fade_start
         IN  ALPHA_ONE - (distance_from_start * ALPHA_ONE) \div fade_height

----------------------------------------------------------------------------
\* renderer.rs: Renderer

Min(a, b) == IF a <= b THEN a ELSE b
Max(a, b) == IF a >= b THEN a ELSE b

\* a variant that creates a column for any key, configured or not
Renderer_on_key_press_any(cfg, cols, key_name) ==
    LET found == {i \in 1..Len(cfg.keys) : cfg.keys[i].key_name = key_name}
    IN  IF found = {} THEN BarManager_on_key_press(cols, key_name, Red)
        ELSE LET key == cfg.keys[CHOOSE i \in found : \A j \in found : i <= j]
             IN  BarManager_on_key_press(cols, key.key_name, key.color)

\* Renderer::on_key_press: the first configured key with that name, if any
Renderer_on_key_press(cfg, cols, key_name) ==
    LET found == {i \in 1..Len(cfg.keys) : cfg.keys[i].key_name = key_name}
    IN  IF found = {} THEN cols
        ELSE LET key == cfg.keys[CHOOSE i \in found : \A j \in found : i <= j]
             IN  BarManager_on_key_press(cols, key.key_name, key.color)

\* Renderer::on_key_release
Renderer_on_key_release(cols, key_name) == BarManager_on_key_release(cols, key_name)

\* a variant that does not pass the new bar_speed on to the BarManager
Renderer_set_config_keep_speed(new_config) ==
    [config        |-> new_config,
     key_positions |-> calculate_key_x_positions(new_config),
     bar_speed     |-> bar_speed]

\* a variant that keeps the stored key positions
Renderer_set_config_keep_positions(new_config) ==
    [config        |-> new_config,
     key_positions |-> key_positions,
     bar_speed     |-> new_config.bar_speed]

\* Renderer::new
Renderer_new(cfg) ==
    [config          |-> cfg,
     key_positions   |-> calculate_key_x_positions(cfg),
     columns         |-> EmptyMap,
     bar_speed       |-> cfg.bar_speed,
     last_frame_time |-> None]

\* Renderer::set_config: the fields it assigns
Renderer_set_config(new_config) ==
    [config        |-> new_config,
     key_positions |-> calculate_key_x_positions(new_config),
     bar_speed     |-> new_config.bar_speed]

\* Renderer::draw: the configured keys (by index) that the for loop does not
\* skip, i.e. those with a stored position
drawn_keys(cfg, positions) == {i \in 1..Len(cfg.keys) : i <= Len(positions)}

\* Renderer::draw: the bars handed to draw_column_bars, as <<key index, bar index>>
drawn_bars(cfg, positions, cols) ==
    UNION { {<<i, j>> : j \in 1..Len(cols[cfg.keys[i].key_name].bars)} :
              i \in {k \in drawn_keys(cfg, positions) :
                        cfg.keys[k].key_name \in DOMAIN cols} }

Abs(x) == IF x < 0 THEN -x ELSE x

\* Renderer::desired_window_size
desired_window_size(cfg) == <<calculate_window_width(cfg), cfg.height>>

\* a variant that compares with >= instead of >
window_size_needs_update_inclusive(current, desired) ==
    \/ Abs(current[1] - desired[1]) >= WINDOW_SIZE_EPSILON
    \/ Abs(current[2] - desired[2]) >= WINDOW_SIZE_EPSILON

\* window_size_needs_update
window_size_needs_update(current, desired) ==
    \/ Abs(current[1] - desired[1]) > WINDOW_SIZE_EPSILON
    \/ Abs(current[2] - desired[2]) > WINDOW_SIZE_EPSILON

\* Renderer::sync_window_size: the window size after the call
\* (set_window_size(desired) is the resize request)
sync_window_size(current, cfg) ==
    IF window_size_needs_update(current, desired_window_size(cfg))
    THEN desired_window_size(cfg)
    ELSE current

\* a variant without the upper clamp
frame_dt_unclamped(last, current_time) ==
    IF last = None THEN 0 ELSE Max(current_time - last[1], 0)

\* Renderer::update_animation: the dt it computes
frame_dt(last, current_time) ==
    Min(IF last = None THEN 0 ELSE Max(current_time - last[1], 0), MAX_DT)

\* a variant that culls before it advances
update_animation_cull_first(cols, dt, speed, height) ==
    BarManager_update(BarManager_remove_offscreen(cols, height), dt, speed)

\* Renderer::update_animation: update then remove_offscreen
update_animation(cols, dt, speed, height) ==
    BarManager_remove_offscreen(BarManager_update(cols, dt, speed), height)

----------------------------------------------------------------------------
\* app.rs: AppOrchestrator

\* types.rs: InputEvent
KeyPress(k)     == [kind |-> "KeyPress",     key |-> k]
KeyRelease(k)   == [kind |-> "KeyRelease",   key |-> k]
MousePress(k)   == [kind |-> "MousePress",   key |-> k]
MouseRelease(k) == [kind |-> "MouseRelease", key |-> k]

\* The event streams of the Input Source (as MockBackend.scripted_events):
\* the source sends a prefix of one of these sequences, one event at a time.
InputScripts ==
    { <<KeyPress(ESCAPE_KEY_NAME), KeyRelease(ESCAPE_KEY_NAME),
        KeyPress(ESCAPE_KEY_NAME), KeyRelease(ESCAPE_KEY_NAME)>>,
      <<KeyPress(ESCAPE_KEY_NAME), KeyPress(ESCAPE_KEY_NAME),
        KeyRelease(ESCAPE_KEY_NAME), KeyPress(ESCAPE_KEY_NAME)>>,
      <<KeyPress("Z"), KeyRelease("Z"), KeyPress("Z"), MousePress("Mouse1")>>,
      <<MousePress("Mouse1"), KeyPress("Z"), MouseRelease("Mouse1"),
        KeyRelease("Z")>> }

\* the elements that may follow the prefix done of one of the scripts
NextOf(scripts, done) ==
    { s[Len(done) + 1] : s \in { t \in scripts :
          /\ Len(t) > Len(done)
          /\ \A i \in 1..Len(done) : t[i] = done[i] } }

\* a variant that takes the instant at which the event was produced
press_instant_produced(clock, produced_at) == produced_at

\* should_close_on_double_escape: let now = Instant::now(), the reading of the
\* clock when the press is processed (an InputEvent carries no time)
press_instant(clock, produced_at) == clock

\* a variant that compares with < instead of <=
should_close_on_double_escape_strict(down, last, t) ==
    IF down
    THEN [result |-> FALSE, escape_down |-> down, last_escape_press_at |-> last]
    ELSE IF last # None /\ t - last[1] < DOUBLE_ESCAPE_INTERVAL
         THEN [result |-> TRUE,  escape_down |-> TRUE, last_escape_press_at |-> None]
         ELSE [result |-> FALSE, escape_down |-> TRUE,
               last_escape_press_at |-> Some(t)]

\* a variant that disarms instead of re-arming when the press comes too late
should_close_on_double_escape_no_rearm(down, last, t) ==
    IF down
    THEN [result |-> FALSE, escape_down |-> down, last_escape_press_at |-> last]
    ELSE IF last # None /\ t - last[1] <= DOUBLE_ESCAPE_INTERVAL
         THEN [result |-> TRUE,  escape_down |-> TRUE, last_escape_press_at |-> None]
         ELSE [result |-> FALSE, escape_down |-> TRUE,
               last_escape_press_at |-> IF last = None THEN Some(t) ELSE None]

\* a variant without the early return for a key that is already down
should_close_on_double_escape_level(down, last, t) ==
    IF last # None /\ t - last[1] <= DOUBLE_ESCAPE_INTERVAL
    THEN [result |-> TRUE,  escape_down |-> TRUE, last_escape_press_at |-> None]
    ELSE [result |-> FALSE, escape_down |-> TRUE,
          last_escape_press_at |-> Some(t)]

\* AppOrchestrator::should_close_on_double_escape at clock reading t
should_close_on_double_escape(down, last, t) ==
    IF down
    THEN [result |-> FALSE, escape_down |-> down, last_escape_press_at |-> last]
    ELSE IF last # None /\ t - last[1] <= DOUBLE_ESCAPE_INTERVAL
         THEN [result |-> TRUE,  escape_down |-> TRUE, last_escape_press_at |-> None]
         ELSE [result |-> FALSE, escape_down |-> TRUE,
               last_escape_press_at |-> Some(t)]

\* a variant that runs the detector whether or not the window is focused
detector_step_ignore_focus(ev, focused, down, last, t) ==
    IF ev.kind = "KeyPress" /\ ev.key = ESCAPE_KEY_NAME
    THEN should_close_on_double_escape(down, last, t)
    ELSE IF ev.kind = "KeyRelease" /\ ev.key = ESCAPE_KEY_NAME
         THEN [result |-> FALSE, escape_down |-> FALSE, last_escape_press_at |-> last]
         ELSE [result |-> FALSE, escape_down |-> down, last_escape_press_at |-> last]

\* a variant whose Escape release also forgets the armed timestamp
detector_step_release_disarms(ev, focused, down, last, t) ==
    IF ev.kind = "KeyPress" /\ ev.key = ESCAPE_KEY_NAME /\ focused
    THEN should_close_on_double_escape(down, last, t)
    ELSE IF ev.kind = "KeyRelease" /\ ev.key = ESCAPE_KEY_NAME
         THEN [result |-> FALSE, escape_down |-> FALSE, last_escape_press_at |-> None]
         ELSE [result |-> FALSE, escape_down |-> down, last_escape_press_at |-> last]

\* process_input_events: the detector part of one loop iteration
\* (the && chain short-circuits: the detector runs only for a focused Escape KeyPress)
detector_step(ev, focused, down, last, t) ==
    IF ev.kind = "KeyPress" /\ ev.key = ESCAPE_KEY_NAME /\ focused
    THEN should_close_on_double_escape(down, last, t)
    ELSE IF ev.kind = "KeyRelease" /\ ev.key = ESCAPE_KEY_NAME
         THEN [result |-> FALSE, escape_down |-> FALSE, last_escape_press_at |-> last]
         ELSE [result |-> FALSE, escape_down |-> down, last_escape_press_at |-> last]

\* a variant that forwards a release only for a configured key
renderer_step_release_configured(ev, cfg, cols) ==
    IF ev.kind \in {"KeyPress", "MousePress"}
    THEN Renderer_on_key_press(cfg, cols, ev.key)
    ELSE IF \E i \in 1..Len(cfg.keys) : cfg.keys[i].key_name = ev.key
         THEN Renderer_on_key_release(cols, ev.key)
         ELSE cols

\* process_input_events: the renderer call of one loop iteration
renderer_step(ev, cfg, cols) ==
    IF ev.kind \in {"KeyPress", "MousePress"}
    THEN Renderer_on_key_press(cfg, cols, ev.key)
    ELSE Renderer_on_key_release(cols, ev.key)

\* a variant with a channel of capacity one and try_send: a snapshot that
\* finds the channel full is dropped
config_send_bounded(q, msg) == IF q = << >> THEN <<msg>> ELSE q

\* start_config_watcher: config_tx.send(new_config) on the unbounded channel
config_send(q, msg) == Append(q, msg)

\* a variant that receives at most one snapshot per tick (try_recv)
config_try_recv_done(q, taken) == taken >= 1 \/ q = << >>

\* a variant that receives with iter(), which waits for the next snapshot
config_iter_done(q, taken) == FALSE

\* process_config_updates: whether try_iter ends (taken = snapshots received so far)
config_try_iter_done(q, taken) == q = << >>

\* process_input_events: whether try_iter().collect() ends
input_try_iter_done(q) == q = << >>

\* a variant that takes the collected events from the back (Vec::pop)
next_event_pop(evs) == evs[Len(evs)]

\* process_input_events: the event the for loop takes next
next_event(evs) == Head(evs)

\* a variant that looks at the double-Escape result only
exit_decision_escape_only(should_close_from_escape, should_close_from_signal) ==
    should_close_from_escape

\* gui_run: the decision to call set_should_close(true)
exit_decision(should_close_from_escape, should_close_from_signal) ==
    should_close_from_escape \/ should_close_from_signal

----------------------------------------------------------------------------
\* input/backend.rs: InputBackend, with the state MockBackend keeps
\* (RdevBackend.running plays the part of started); ok is whether the call
\* succeeds

\* MockBackend::default / RdevBackend::new
InputBackend_new == [started |-> FALSE, start_calls |-> 0, stop_calls |-> 0]

\* InputBackend::start
InputBackend_start(b, ok) ==
    [result  |-> ok,
     backend |-> [b EXCEPT !.started = IF ok THEN TRUE ELSE @,
                           !.start_calls = @ + 1]]

\* InputBackend::stop
InputBackend_stop(b, ok) ==
    [result  |-> ok,
     backend |-> [b EXCEPT !.started = IF ok THEN FALSE ELSE @,
                           !.stop_calls = @ + 1]]

\* a variant that calls start again after a failure
run_input_backend_retry(start_ok) ==
    IF start_ok THEN "recv" ELSE "start"

\* run_input_backend: where the thread goes after backend.start returned:
\* on to shutdown_rx.recv(), or out of the function
run_input_backend(start_ok) ==
    IF start_ok THEN "recv" ELSE "exited"

----------------------------------------------------------------------------
\* watcher.rs: ConfigWatcher.  debouncer is whether self.debouncer is Some;
\* created and dropped count the debouncers made by new_debouncer and dropped

\* ConfigWatcher::new (path_ok: the path can be canonicalized)
ConfigWatcher_new(path_ok) ==
    IF path_ok THEN Some([debouncer |-> FALSE, created |-> 0, dropped |-> 0])
    ELSE None

\* the ways ConfigWatcher::start can go when there is no debouncer yet
StartOutcomes == {"ok", "new_debouncer_err", "watch_err"}

\* a variant without the early return for a running watcher
ConfigWatcher_start_again(w, outcome) ==
    IF outcome = "new_debouncer_err" THEN [ok |-> FALSE, watcher |-> w]
    ELSE IF outcome = "watch_err"
         THEN [ok |-> FALSE,
               watcher |-> [w EXCEPT !.created = @ + 1, !.dropped = @ + 1]]
         ELSE [ok |-> TRUE,
               watcher |-> [w EXCEPT !.debouncer = TRUE, !.created = @ + 1,
                                     !.dropped = IF w.debouncer THEN @ + 1 ELSE @]]

\* ConfigWatcher::start
ConfigWatcher_start(w, outcome) ==
    IF w.debouncer THEN [ok |-> TRUE, watcher |-> w]
    ELSE IF outcome = "new_debouncer_err" THEN [ok |-> FALSE, watcher |-> w]
    ELSE IF outcome = "watch_err"
         THEN [ok |-> FALSE,
               watcher |-> [w EXCEPT !.created = @ + 1, !.dropped = @ + 1]]
         ELSE [ok |-> TRUE,
               watcher |-> [w EXCEPT !.debouncer = TRUE, !.created = @ + 1]]

\* ConfigWatcher::stop
ConfigWatcher_stop(w) ==
    [ok |-> TRUE,
     watcher |-> IF w.debouncer
                 THEN [w EXCEPT !.debouncer = FALSE, !.dropped = @ + 1]
                 ELSE w]

----------------------------------------------------------------------------
\* config.rs: ensure_config_exists

\* serialize_config: every field of the configuration is written
serialize_config(cfg) ==
    [parse_ok |-> TRUE, height |-> Some(cfg.height), key_size |-> Some(cfg.key_size),
     bar_speed |-> Some(cfg.bar_speed), margin |-> Some(cfg.margin),
     outline_thickness |-> Some(cfg.outline_thickness), fading |-> Some(cfg.fading),
     counter |-> Some(cfg.counter), fps |-> Some(cfg.fps), key |-> cfg.keys]

\* ensure_config_exists: file is None when the path does not exist, else the
\* contents; write_ok is whether the default file can be created
ensure_config_exists(file, write_ok) ==
    IF file # None THEN load_from_str(file[1])
    ELSE IF ~write_ok THEN None
    ELSE load_from_str(serialize_config(AppConfig_default))

----------------------------------------------------------------------------
\* app.rs: run

\* the fallible steps of run, in order, then the render loop and the shutdown
RunSteps ==
    <<"ensure_config_exists", "start_input_thread", "ConfigWatcher_new",
      "ConfigWatcher_start", "render_loop", "watcher_stop", "returned">>

StepAfter(step) ==
    RunSteps[(CHOOSE i \in 1..Len(RunSteps) : RunSteps[i] = step) + 1]

\* a variant that only logs a failure of the config watcher
run_continue_without_watcher(step, ok) ==
    IF ok \/ step \in {"ConfigWatcher_new", "ConfigWatcher_start"}
    THEN StepAfter(step) ELSE "returned"

\* run: where the main thread goes after a fallible step (the ? operator)
run_after(step, ok) == IF ok THEN StepAfter(step) ELSE "returned"

\* run: the Result it returns once it has left a step
run_result_after(step, ok) ==
    IF ~ok THEN Some("Err")
    ELSE IF StepAfter(step) = "returned" THEN Some("Ok")
    ELSE None

\* a variant in which the Sender is dropped before egui_overlay::start
shutdown_tx_dropped_early(pos) == pos \in {"render_loop", "watcher_stop", "returned"}

\* the Sender half of the shutdown channel is gone: run has executed
\* drop(input_shutdown_tx), or has returned and dropped its locals
shutdown_tx_dropped(pos) == pos \in {"watcher_stop", "returned"}

----------------------------------------------------------------------------
\* Initial state: app.rs run() up to egui_overlay::start, Renderer::new,
\* AppOrchestrator::new

InitialConfig == load_from_str(RawA)[1]

\* the size the host gives the window before the first frame (the host's
\* choice; sync_window_size reads it as glfw_backend.window_size_logical)
HostWindowSize == <<8000, 6000>>

HistInit ==
    [start            |-> Renderer_set_config(InitialConfig),
     drained          |-> << >>,
     cfg_sent         |-> 0,
     cfg_sent_at_start |-> 0,
     cfg_applied_at_start |-> 0,
     cfg_applied      |-> 0,
     in_applied       |-> 0,
     esc_prev_at      |-> None,
     esc_prev_counted |-> FALSE,
     esc_released     |-> FALSE,
     presses          |-> EmptyMap,
     startup          |-> << >>,
     calls            |-> << >>]

\* the process once run has reached egui_overlay::start: the input thread has
\* started its backend and waits in shutdown_rx.recv(), the watcher is running
ProcStarted ==
    /\ run_pc = "render_loop"
    /\ run_result = None
    /\ input_thread = "recv"
    /\ backend = InputBackend_start(InputBackend_new, TRUE).backend
    /\ watcher = Some(ConfigWatcher_start(ConfigWatcher_new(TRUE)[1], "ok").watcher)

OrchInit ==
    /\ escape_down = FALSE
    /\ last_escape_press_at = None
    /\ events = << >>
    /\ should_close = FALSE
    /\ is_window_focused = FALSE
    /\ input_q = << >>
    /\ config_q = << >>
    /\ shutdown_requested = FALSE
    /\ window_should_close = FALSE
    /\ now = 0
    /\ sent = << >>
    /\ reloads = << >>
    /\ last_op = [name |-> "init"]
    /\ hist = HistInit
    /\ ProcStarted

Init ==
    /\ window_size = HostWindowSize
    /\ config = InitialConfig
    /\ key_positions = calculate_key_x_positions(InitialConfig)
    /\ columns = EmptyMap
    /\ bar_speed = InitialConfig.bar_speed
    /\ last_frame_time = None
    /\ pre_columns = EmptyMap
    /\ pc = "config"
    /\ OrchInit

----------------------------------------------------------------------------
\* Producers

\* Input Source: the backend sends one event (rdev_backend.rs / backend.rs tx.send)
SendInput ==
    /\ Len(sent) < MaxEvents
    /\ backend.started
    /\ pc # "closed"
    /\ \E ev \in NextOf(InputScripts, sent) :
          /\ input_q' = Append(input_q, [seq |-> Len(sent) + 1, ev |-> ev])
          /\ sent' = Append(sent, ev)
    /\ last_op' = [name |-> "producer"]
    /\ pre_columns' = columns
    /\ UNCHANGED <<procVars, window_size, engineVars, orchVars, config_q, shutdown_requested,
                   window_should_close, now, reloads, hist>>

\* Config Source: watcher.rs handle_debounce_event with the callback of
\* start_config_watcher
ReloadConfig ==
    /\ Len(reloads) < MaxConfigs
    /\ watcher # None
    /\ watcher[1].debouncer
    /\ pc # "closed"
    /\ \E raw \in NextOf(ReloadScripts, reloads) :
          LET loaded == load_from_str(raw)
          IN  /\ reloads' = Append(reloads, raw)
              /\ IF loaded = None
                 THEN /\ config_q' = config_q
                      /\ hist' = hist
                      /\ last_op' = [name |-> "producer"]
                 ELSE /\ config_q' = config_send(config_q,
                             [seq |-> hist.cfg_sent + 1, cfg |-> loaded[1]])
                      /\ hist' = [hist EXCEPT !.cfg_sent = @ + 1]
                      /\ last_op' = [name |-> "producer"]
    /\ pre_columns' = columns
    /\ UNCHANGED <<procVars, window_size, engineVars, orchVars, input_q, shutdown_requested,
                   window_should_close, now, sent>>

\* install_ctrlc_handler: the handler stores true.  The only reader of the
\* flag is the load in gui_run, and the store commutes with every other step,
\* so the store is taken at the last point before that load.
CtrlC ==
    /\ ~shutdown_requested
    /\ pc = "apply" /\ events = << >>
    /\ shutdown_requested' = TRUE
    /\ last_op' = [name |-> "producer"]
    /\ pre_columns' = columns
    /\ UNCHANGED <<procVars, window_size, engineVars, orchVars, input_q, config_q, window_should_close,
                   envVars, hist>>

----------------------------------------------------------------------------
\* AppOrchestrator::gui_run, one step per queue operation / loop iteration

\* process_config_updates: try_iter yields a snapshot, set_config applies it
ProcessConfigRecv ==
    /\ pc = "config"
    /\ config_q # << >>
    /\ ~config_try_iter_done(config_q, Len(hist.drained))
    /\ LET msg == Head(config_q)
           set == Renderer_set_config(msg.cfg)
       IN  /\ config' = set.config
           /\ key_positions' = set.key_positions
           /\ bar_speed' = set.bar_speed
           /\ hist' = [hist EXCEPT !.drained = Append(@, msg.cfg),
                                   !.cfg_applied = msg.seq]
           /\ last_op' = [name |-> "set_config", seq |-> msg.seq]
    /\ config_q' = Tail(config_q)
    /\ pre_columns' = columns
    /\ UNCHANGED <<procVars, window_size, columns, last_frame_time, orchVars, input_q, shutdown_requested,
                   window_should_close, envVars>>

\* process_config_updates returns
ProcessConfigDone ==
    /\ pc = "config"
    /\ config_try_iter_done(config_q, Len(hist.drained))
    /\ pc' = "collect"
    /\ is_window_focused' = is_window_focused
    /\ last_op' = [name |-> "config_drained", drained |-> hist.drained,
                   start |-> hist.start]
    /\ hist' = [hist EXCEPT !.drained = << >>,
                            !.start = [config |-> config,
                                       key_positions |-> key_positions,
                                       bar_speed |-> bar_speed]]
    /\ pre_columns' = columns
    /\ UNCHANGED <<procVars, window_size, engineVars, escape_down, last_escape_press_at, events,
                   should_close, sharedVars, envVars>>

\* process_input_events: try_iter().collect() receives one event
CollectRecv ==
    /\ pc = "collect"
    /\ ~input_try_iter_done(input_q)
    /\ events' = Append(events, Head(input_q))
    /\ input_q' = Tail(input_q)
    /\ last_op' = [name |-> "collect"]
    /\ pre_columns' = columns
    /\ UNCHANGED <<procVars, window_size, engineVars, escape_down, last_escape_press_at, pc, should_close,
                   is_window_focused, config_q, shutdown_requested,
                   window_should_close, envVars, hist>>

\* process_input_events: collect() ends.  is_window_focused is the value
\* gui_run read from the window before the call (the window is external, so
\* the value is an input whose reading point does not matter; the loop is its
\* only reader, so with no event collected it is recorded as FALSE).
CollectDone ==
    /\ pc = "collect"
    /\ input_try_iter_done(input_q)
    /\ pc' = "apply"
    /\ is_window_focused' \in (IF events = << >> THEN {FALSE} ELSE BOOLEAN)
    /\ last_op' = [name |-> "collected"]
    /\ pre_columns' = columns
    /\ UNCHANGED <<procVars, window_size, engineVars, escape_down, last_escape_press_at, events,
                   should_close, sharedVars, envVars, hist>>

\* time elapsed between the processing of two successive Escape presses: the
\* clock is read only by should_close_on_double_escape, so it is advanced
\* where an Escape press is processed; 400 ms (the interval itself) or 500 ms
ClockSteps == {4, 5}

\* frame times reported by the GUI context (input.time), relative to the
\* time of the previous frame (update_animation uses the difference only, so
\* the time origin is moved to the latest frame after every frame)
FrameTimes == {-2, 0, 1, 2}

\* process_input_events: one iteration of the for loop
ApplyEvent ==
    /\ pc = "apply"
    /\ events # << >>
    /\ LET msg == next_event(events)
           ev  == msg.ev
           isEscPress == ev.kind = "KeyPress" /\ ev.key = ESCAPE_KEY_NAME
           isEscRelease == ev.kind = "KeyRelease" /\ ev.key = ESCAPE_KEY_NAME
       IN  /\ \E d \in (IF isEscPress THEN ClockSteps ELSE {0}) : now' = now + d
           /\ LET det == detector_step(ev, is_window_focused, escape_down,
                                       last_escape_press_at, now')
                  counted == isEscPress /\ is_window_focused /\ ~escape_down
              IN  /\ escape_down' = det.escape_down
                  /\ last_escape_press_at' = det.last_escape_press_at
                  /\ should_close' = (should_close \/ det.result)
                  /\ last_op' = [name |-> "apply", ev |-> ev, seq |-> msg.seq,
                                 focused |-> is_window_focused,
                                 prev_at |-> hist.esc_prev_at,
                                 prev_counted |-> hist.esc_prev_counted,
                                 released |-> hist.esc_released,
                                 counted |-> counted,
                                 closed |-> det.result]
                  /\ hist' = [hist EXCEPT
                        !.in_applied = @ + 1,
                        !.esc_prev_at = IF isEscPress THEN Some(now') ELSE @,
                        !.esc_prev_counted = IF isEscPress THEN counted ELSE @,
                        !.esc_released = IF isEscPress THEN FALSE
                                         ELSE IF isEscRelease THEN TRUE ELSE @]
           /\ columns' = renderer_step(ev, config, columns)
           /\ events' = SelectSeq(events, LAMBDA m : m # msg)
    /\ pre_columns' = columns
    /\ UNCHANGED <<procVars, window_size, config, key_positions, bar_speed, last_frame_time, pc,
                   is_window_focused, sharedVars, sent, reloads>>

\* gui_run after process_input_events has returned: load the flag, decide on
\* close, then Renderer::gui_run (sync_window_size, update_animation; drawing
\* changes no state); the host loop then either
\* starts the next tick or, once close was requested, leaves egui_overlay::start.
\* Everything after the load touches only state owned by the render thread.
FinishTick ==
    /\ pc = "apply"
    /\ events = << >>
    /\ window_should_close' =
          (window_should_close \/ exit_decision(should_close, shutdown_requested))
    /\ \E current_time \in FrameTimes :
          LET dt == frame_dt(last_frame_time, current_time)
          IN  /\ last_frame_time' = Some(current_time - current_time)
              /\ columns' = update_animation(columns, dt, bar_speed, config.height)
              /\ last_op' = [name |-> "finish", dt |-> dt,
                             elapsed |-> IF last_frame_time = None THEN None
                                         ELSE Some(current_time - last_frame_time[1]),
                             from_escape |-> should_close,
                             from_signal |-> shutdown_requested]
    /\ pre_columns' = columns
    /\ pc' = IF window_should_close' THEN "closed" ELSE "config"
    /\ should_close' = FALSE
    /\ is_window_focused' = FALSE
    /\ hist' = [hist EXCEPT !.cfg_sent_at_start = hist.cfg_sent,
                            !.cfg_applied_at_start = hist.cfg_applied]
    /\ window_size' = sync_window_size(window_size, config)
    /\ UNCHANGED <<procVars, config, key_positions, bar_speed, escape_down,
                   last_escape_press_at, events, input_q, config_q,
                   shutdown_requested, envVars>>

Next ==
    \/ SendInput
    \/ ReloadConfig
    \/ CtrlC
    \/ ProcessConfigRecv
    \/ ProcessConfigDone
    \/ CollectRecv
    \/ CollectDone
    \/ ApplyEvent
    \/ FinishTick

Spec == Init /\ [][Next]_vars

\* one step of the render thread inside gui_run
TickStep ==
    \/ ProcessConfigRecv
    \/ ProcessConfigDone
    \/ CollectRecv
    \/ CollectDone
    \/ ApplyEvent
    \/ FinishTick

\* The same system with a render thread that is scheduled: the host calls
\* gui_run frame after frame and the thread runs whenever it can take a step.
\* Nothing is assumed about the producers.
LiveSpec == Spec /\ WF_vars(TickStep)

----------------------------------------------------------------------------
\* The whole process: app.rs run from its first line, the input thread, then
\* the ticks above, then the shutdown at the end of run

\* what ensure_config_exists finds at config_path: a file that parses, a file
\* that does not, or no file, in a place where one can or cannot be created
StartupFiles ==
    { [file |-> Some(RawA), write_ok |-> TRUE],
      [file |-> Some(RawBad), write_ok |-> TRUE],
      [file |-> None, write_ok |-> FALSE],
      [file |-> None, write_ok |-> TRUE] }

RunInit ==
    /\ window_size = None
    /\ config = None
    /\ key_positions = << >>
    /\ columns = EmptyMap
    /\ bar_speed = 0
    /\ last_frame_time = None
    /\ pre_columns = EmptyMap
    /\ pc = "idle"
    /\ escape_down = FALSE
    /\ last_escape_press_at = None
    /\ events = << >>
    /\ should_close = FALSE
    /\ is_window_focused = FALSE
    /\ input_q = << >>
    /\ config_q = << >>
    /\ shutdown_requested = FALSE
    /\ window_should_close = FALSE
    /\ now = 0
    /\ sent = << >>
    /\ reloads = << >>
    /\ last_op = [name |-> "init"]
    /\ hist = HistInit
    /\ run_pc = "ensure_config_exists"
    /\ run_result = None
    /\ input_thread = "not_spawned"
    /\ backend = InputBackend_new
    /\ watcher = None

\* run: config::ensure_config_exists(config_path)?
RunEnsureConfigExists ==
    /\ run_pc = "ensure_config_exists"
    /\ \E f \in StartupFiles :
          LET loaded == ensure_config_exists(f.file, f.write_ok)
              ok     == loaded # None
          IN  /\ config' = IF ok THEN loaded[1] ELSE config
              /\ run_pc' = run_after("ensure_config_exists", ok)
              /\ run_result' = run_result_after("ensure_config_exists", ok)
              /\ hist' = [hist EXCEPT !.startup =
                            Append(@, [step |-> "ensure_config_exists", ok |-> ok])]
              /\ last_op' = [name |-> "run", step |-> "ensure_config_exists",
                             ok |-> ok]
    /\ pre_columns' = columns
    /\ UNCHANGED <<key_positions, columns, bar_speed, last_frame_time, orchVars,
                   sharedVars, envVars, input_thread, backend, watcher,
                   window_size>>

\* run: start_input_thread()? (create_backend, the channels, thread spawn)
RunStartInputThread ==
    /\ run_pc = "start_input_thread"
    /\ \E spawn_ok \in BOOLEAN :
          /\ input_thread' = IF spawn_ok THEN "start" ELSE input_thread
          /\ backend' = InputBackend_new
          /\ run_pc' = run_after("start_input_thread", spawn_ok)
          /\ run_result' = run_result_after("start_input_thread", spawn_ok)
          /\ hist' = [hist EXCEPT !.startup =
                        Append(@, [step |-> "start_input_thread", ok |-> spawn_ok])]
          /\ last_op' = [name |-> "run", step |-> "start_input_thread",
                         ok |-> spawn_ok]
    /\ pre_columns' = columns
    /\ UNCHANGED <<engineVars, orchVars, sharedVars, envVars, watcher, window_size>>

\* start_config_watcher: ConfigWatcher::new(config_path, callback)?
RunConfigWatcherNew ==
    /\ run_pc = "ConfigWatcher_new"
    /\ \E path_ok \in BOOLEAN :
          LET made == ConfigWatcher_new(path_ok)
              ok   == made # None
          IN  /\ watcher' = made
              /\ run_pc' = run_after("ConfigWatcher_new", ok)
              /\ run_result' = run_result_after("ConfigWatcher_new", ok)
              /\ hist' = [hist EXCEPT !.startup =
                            Append(@, [step |-> "ConfigWatcher_new", ok |-> ok])]
              /\ last_op' = [name |-> "run", step |-> "ConfigWatcher_new",
                             ok |-> ok]
    /\ pre_columns' = columns
    /\ UNCHANGED <<engineVars, orchVars, sharedVars, envVars, input_thread,
                   backend, window_size>>

\* start_config_watcher: watcher.start()?; then, in run, install_ctrlc_handler,
\* create_renderer, AppOrchestrator::new and egui_overlay::start, which opens
\* the window and begins to call gui_run
RunConfigWatcherStart ==
    /\ run_pc = "ConfigWatcher_start"
    /\ \E outcome \in StartOutcomes :
          LET r        == ConfigWatcher_start(watcher[1], outcome)
              renderer == Renderer_new(config)
          IN  /\ watcher' = Some(r.watcher)
              /\ run_pc' = run_after("ConfigWatcher_start", r.ok)
              /\ run_result' = run_result_after("ConfigWatcher_start", r.ok)
              /\ last_op' = [name |-> "run", step |-> "ConfigWatcher_start",
                             ok |-> r.ok]
              /\ IF run_pc' = "render_loop"
                 THEN /\ key_positions' = renderer.key_positions
                      /\ columns' = renderer.columns
                      /\ bar_speed' = renderer.bar_speed
                      /\ last_frame_time' = renderer.last_frame_time
                      /\ window_size' = HostWindowSize
                      /\ pc' = "config"
                      /\ hist' = [hist EXCEPT
                            !.startup = Append(@, [step |-> "ConfigWatcher_start",
                                                   ok |-> r.ok]),
                            !.start = Renderer_set_config(config)]
                 ELSE /\ hist' = [hist EXCEPT
                            !.startup = Append(@, [step |-> "ConfigWatcher_start",
                                                   ok |-> r.ok])]
                      /\ UNCHANGED <<key_positions, columns, bar_speed,
                                     last_frame_time, window_size, pc>>
    /\ pre_columns' = columns
    /\ UNCHANGED <<config, escape_down, last_escape_press_at, events, should_close,
                   is_window_focused, sharedVars, envVars, input_thread, backend>>

\* run: egui_overlay::start has returned; drop(input_shutdown_tx)
RunDropShutdownTx ==
    /\ run_pc = "render_loop"
    /\ pc = "closed"
    /\ run_pc' = run_after("render_loop", TRUE)
    /\ run_result' = run_result_after("render_loop", TRUE)
    /\ last_op' = [name |-> "run", step |-> "render_loop", ok |-> TRUE]
    /\ pre_columns' = columns
    /\ UNCHANGED <<engineVars, orchVars, sharedVars, envVars, hist, input_thread,
                   backend, watcher, window_size>>

\* run: config_watcher.stop()?, then Ok(())
RunWatcherStop ==
    /\ run_pc = "watcher_stop"
    /\ LET r == ConfigWatcher_stop(watcher[1])
       IN  /\ watcher' = Some(r.watcher)
           /\ run_pc' = run_after("watcher_stop", r.ok)
           /\ run_result' = run_result_after("watcher_stop", r.ok)
           /\ last_op' = [name |-> "run", step |-> "watcher_stop", ok |-> r.ok]
    /\ pre_columns' = columns
    /\ UNCHANGED <<engineVars, orchVars, sharedVars, envVars, hist, input_thread,
                   backend, window_size>>

\* run_input_backend: backend.start(event_tx)
InputBackendStart ==
    /\ input_thread = "start"
    /\ \E start_ok \in BOOLEAN :
          LET r == InputBackend_start(backend, start_ok)
          IN  /\ backend' = r.backend
              /\ input_thread' = run_input_backend(r.result)
              /\ last_op' = [name |-> "backend_start", ok |-> r.result]
    /\ pre_columns' = columns
    /\ UNCHANGED <<engineVars, orchVars, sharedVars, envVars, hist, run_pc,
                   run_result, watcher, window_size>>

\* run_input_backend: shutdown_rx.recv() returns once the Sender is dropped,
\* then backend.stop()
InputBackendStop ==
    /\ input_thread = "recv"
    /\ shutdown_tx_dropped(run_pc)
    /\ \E stop_ok \in BOOLEAN :
          LET r == InputBackend_stop(backend, stop_ok)
          IN  /\ backend' = r.backend
              /\ input_thread' = "exited"
              /\ last_op' = [name |-> "backend_stop", ok |-> r.result]
    /\ pre_columns' = columns
    /\ UNCHANGED <<engineVars, orchVars, sharedVars, envVars, hist, run_pc,
                   run_result, watcher, window_size>>

RunNext ==
    \/ RunEnsureConfigExists
    \/ RunStartInputThread
    \/ RunConfigWatcherNew
    \/ RunConfigWatcherStart
    \/ RunDropShutdownTx
    \/ RunWatcherStop
    \/ InputBackendStart
    \/ InputBackendStop
    \/ SendInput
    \/ ReloadConfig
    \/ CtrlC
    \/ ProcessConfigRecv
    \/ ProcessConfigDone
    \/ CollectRecv
    \/ CollectDone
    \/ ApplyEvent
    \/ FinishTick

RunSpec == RunInit /\ [][RunNext]_vars

\* The same process with an input thread that is scheduled: once recv() can
\* return, the thread runs on to backend.stop().  Nothing is assumed about
\* the main thread, the render loop or the producers.
RunLiveSpec == RunSpec /\ WF_vars(InputBackendStop)

----------------------------------------------------------------------------
\* The ConfigWatcher alone, driven through start and stop (as the tests of
\* watcher.rs do)

WatcherInit ==
    /\ window_size = HostWindowSize
    /\ config = InitialConfig
    /\ key_positions = calculate_key_x_positions(InitialConfig)
    /\ columns = EmptyMap
    /\ bar_speed = InitialConfig.bar_speed
    /\ last_frame_time = None
    /\ pre_columns = EmptyMap
    /\ pc = "watcher"
    /\ escape_down = FALSE
    /\ last_escape_press_at = None
    /\ events = << >>
    /\ should_close = FALSE
    /\ is_window_focused = FALSE
    /\ input_q = << >>
    /\ config_q = << >>
    /\ shutdown_requested = FALSE
    /\ window_should_close = FALSE
    /\ now = 0
    /\ sent = << >>
    /\ reloads = << >>
    /\ last_op = [name |-> "init"]
    /\ hist = HistInit
    /\ run_pc = "ConfigWatcher_start"
    /\ run_result = None
    /\ input_thread = "not_spawned"
    /\ backend = InputBackend_new
    /\ watcher = ConfigWatcher_new(TRUE)

\* watcher.start()
CallWatcherStart ==
    /\ pc = "watcher"
    /\ Len(hist.calls) < MaxWatcherCalls
    /\ \E outcome \in StartOutcomes :
          LET r == ConfigWatcher_start(watcher[1], outcome)
          IN  /\ watcher' = Some(r.watcher)
              /\ last_op' = [name |-> "watcher_start", ok |-> r.ok,
                             before |-> watcher[1]]
              /\ hist' = [hist EXCEPT !.calls =
                            Append(@, [op |-> "start", ok |-> r.ok])]
    /\ UNCHANGED <<engineVars, orchVars, sharedVars, envVars, pre_columns, run_pc,
                   run_result, input_thread, backend, window_size>>

\* watcher.stop()
CallWatcherStop ==
    /\ pc = "watcher"
    /\ Len(hist.calls) < MaxWatcherCalls
    /\ LET r == ConfigWatcher_stop(watcher[1])
       IN  /\ watcher' = Some(r.watcher)
           /\ last_op' = [name |-> "watcher_stop", ok |-> r.ok,
                          before |-> watcher[1]]
           /\ hist' = [hist EXCEPT !.calls =
                         Append(@, [op |-> "stop", ok |-> r.ok])]
    /\ UNCHANGED <<engineVars, orchVars, sharedVars, envVars, pre_columns, run_pc,
                   run_result, input_thread, backend, window_size>>

WatcherNext ==
    \/ CallWatcherStart
    \/ CallWatcherStop

WatcherSpec == WatcherInit /\ [][WatcherNext]_vars

----------------------------------------------------------------------------
\* The double-Escape detector alone: process_input_events applied to one
\* event at a time, each with the focus state of its tick and the clock
\* reading at which it is processed

\* the events given to the loop
DetectorEvents ==
    {KeyPress(ESCAPE_KEY_NAME), KeyRelease(ESCAPE_KEY_NAME), KeyPress("Z")}

\* time elapsed since the previous event was processed: none, the interval
\* itself (400 ms), or more (500 ms)
DetectorClockSteps == {0, 4, 5}

DetectorInit ==
    /\ window_size = HostWindowSize
    /\ config = InitialConfig
    /\ key_positions = calculate_key_x_positions(InitialConfig)
    /\ columns = EmptyMap
    /\ bar_speed = InitialConfig.bar_speed
    /\ last_frame_time = None
    /\ pre_columns = EmptyMap
    /\ pc = "detector"
    /\ OrchInit

\* process_input_events: one iteration of the for loop
DetectorApplyEvent ==
    /\ pc = "detector"
    /\ Len(hist.calls) < MaxDetectorEvents
    /\ \E ev \in DetectorEvents, focused \in BOOLEAN :
          \E d \in (IF ev = KeyPress(ESCAPE_KEY_NAME) THEN DetectorClockSteps
                     ELSE {0}) :
             LET det == detector_step(ev, focused, escape_down,
                                      last_escape_press_at, now + d)
             IN  /\ now' = now + d
                 /\ escape_down' = det.escape_down
                 /\ last_escape_press_at' = det.last_escape_press_at
                 /\ should_close' = (should_close \/ det.result)
                 /\ is_window_focused' = focused
                 /\ columns' = renderer_step(ev, config, columns)
                 /\ last_op' = [name |-> "detector", ev |-> ev,
                                focused |-> focused, at |-> now + d,
                                result |-> det.result,
                                down_before |-> escape_down,
                                armed_before |-> last_escape_press_at]
                 /\ hist' = [hist EXCEPT !.calls =
                               Append(@, [ev |-> ev, focused |-> focused,
                                          at |-> now + d, result |-> det.result])]
    /\ pre_columns' = columns
    /\ UNCHANGED <<procVars, window_size, config, key_positions, bar_speed,
                   last_frame_time, pc, events, sharedVars, sent, reloads>>

DetectorNext == DetectorApplyEvent

DetectorSpec == DetectorInit /\ [][DetectorNext]_vars

----------------------------------------------------------------------------
\* Reconciling the window size: the configuration part of a tick
\* (app.rs AppOrchestrator::gui_run) followed by renderer.rs Renderer::gui_run,
\* with no input event and no exit request in between

\* the configurations the Config Source delivers: the initial one, the height
\* changed by 0.4, 0.5 and 0.6 px, the first key renamed, the key size changed
\* by 0.2 and 0.4 px (the width by 0.5 and 1.0 px), a third key, and RawB
WindowConfigs ==
    { InitialConfig,
      [InitialConfig EXCEPT !.height = 604],
      [InitialConfig EXCEPT !.height = 605],
      [InitialConfig EXCEPT !.height = 606],
      [InitialConfig EXCEPT !.keys[1].key_name = "X"],
      [InitialConfig EXCEPT !.key_size = 702],
      [InitialConfig EXCEPT !.key_size = 704],
      [InitialConfig EXCEPT !.keys =
          Append(@, [key_name |-> "X", color |-> Red, size |-> SIZE_ONE])],
      load_from_str(RawB)[1] }

\* what config_rx.try_iter() yields in one tick: nothing, one snapshot, or
\* RawB followed by another one
WindowSnapshots ==
    {<< >>} \cup {<<c>> : c \in WindowConfigs}
            \cup {<<load_from_str(RawB)[1], d>> :
                     d \in {InitialConfig, [InitialConfig EXCEPT !.height = 606]}}

\* by how much the host (the user, the window manager) changes the width or
\* the height of the window between two frames, in tenths of a pixel
WindowResizeDeltas == {<<-6, 0>>, <<5, 0>>, <<0, -6>>, <<0, 5>>}

\* AppOrchestrator::process_config_updates: set_config for every snapshot, in
\* order; renderer is the record of the fields set_config assigns
RECURSIVE process_config_updates(_, _)
process_config_updates(renderer, snapshots) ==
    IF snapshots = << >> THEN renderer
    ELSE process_config_updates(Renderer_set_config(Head(snapshots)),
                                Tail(snapshots))

WindowInit ==
    /\ window_size = HostWindowSize
    /\ config = InitialConfig
    /\ key_positions = calculate_key_x_positions(InitialConfig)
    /\ columns = EmptyMap
    /\ bar_speed = InitialConfig.bar_speed
    /\ last_frame_time = None
    /\ pre_columns = EmptyMap
    /\ pc = "window_config"
    /\ OrchInit

\* AppOrchestrator::gui_run up to the call of renderer.gui_run; hist.start
\* keeps the Renderer's fields of before the tick, hist.drained the snapshots
WinProcessConfigUpdates ==
    /\ pc = "window_config"
    /\ \E snapshots \in WindowSnapshots :
          LET before == [config |-> config, key_positions |-> key_positions,
                         bar_speed |-> bar_speed]
              after == process_config_updates(before, snapshots)
          IN  /\ config' = after.config
              /\ key_positions' = after.key_positions
              /\ bar_speed' = after.bar_speed
              /\ hist' = [hist EXCEPT !.start = before, !.drained = snapshots]
              /\ last_op' = [name |-> "process_config_updates",
                             applied |-> Len(snapshots)]
    /\ pc' = "window_frame"
    /\ pre_columns' = columns
    /\ UNCHANGED <<procVars, window_size, columns, last_frame_time,
                   escape_down, last_escape_press_at, events, should_close,
                   is_window_focused, sharedVars, envVars>>

\* Renderer::gui_run: sync_window_size, then update_animation
WinGuiRun ==
    /\ pc = "window_frame"
    /\ window_size' = sync_window_size(window_size, config)
    /\ \E current_time \in FrameTimes :
          LET dt == frame_dt(last_frame_time, current_time)
          IN  /\ last_frame_time' = Some(current_time - current_time)
              /\ columns' = update_animation(columns, dt, bar_speed, config.height)
    /\ last_op' = [name |-> "sync_window_size",
                   current |-> window_size,
                   desired |-> desired_window_size(config),
                   requested |-> window_size_needs_update(
                                     window_size, desired_window_size(config))]
    /\ pc' = "window_config"
    /\ pre_columns' = columns
    /\ UNCHANGED <<procVars, config, key_positions, bar_speed, hist,
                   escape_down, last_escape_press_at, events, should_close,
                   is_window_focused, sharedVars, envVars>>

\* the host changes the size of the window between two frames (at most once)
WinHostResize ==
    /\ pc = "window_config"
    /\ last_op.name # "host_resize"
    /\ \E d \in WindowResizeDeltas :
          window_size' = <<window_size[1] + d[1], window_size[2] + d[2]>>
    /\ last_op' = [name |-> "host_resize"]
    /\ pre_columns' = columns
    /\ UNCHANGED <<procVars, engineVars, orchVars, sharedVars, envVars, hist>>

WindowNext ==
    \/ WinProcessConfigUpdates
    \/ WinGuiRun
    \/ WinHostResize

WindowSpec == WindowInit /\ [][WindowNext]_vars

----------------------------------------------------------------------------
\* Production time and processing time of the input events: the Input Source
\* sends at instants of its own, a tick collects everything that is queued and
\* processes it in one run of the for loop of process_input_events

\* how long the Input Source waits before it sends the next event: nothing,
\* 100 ms, 500 ms or 2 s
ProduceDelays == {0, 1, 5, 20}

\* how long one iteration of the for loop takes (a few HashMap operations):
\* less than the clock resolves, or 100 ms
LoopSteps == {0, 1}

\* the waits the Input Source can have finished at this point: any of them
\* between two ticks; while the for loop runs, the time that passes is the
\* time the loop takes (LoopSteps), and an event sent meanwhile is sent at the
\* current instant
SendDelays == IF pc = "tap_apply" THEN {0} ELSE ProduceDelays

TapInit ==
    /\ window_size = HostWindowSize
    /\ config = InitialConfig
    /\ key_positions = calculate_key_x_positions(InitialConfig)
    /\ columns = EmptyMap
    /\ bar_speed = InitialConfig.bar_speed
    /\ last_frame_time = None
    /\ pre_columns = EmptyMap
    /\ pc = "tap_wait"
    /\ OrchInit

\* Input Source: the backend sends one event, some time after the previous one
TapSendInput ==
    /\ Len(sent) < MaxEvents
    /\ backend.started
    /\ pc # "closed"
    /\ \E ev \in NextOf(InputScripts, sent), d \in SendDelays :
          /\ now' = now + d
          /\ input_q' = Append(input_q, [seq |-> Len(sent) + 1, ev |-> ev,
                                         produced_at |-> now + d])
          /\ sent' = Append(sent, ev)
    /\ last_op' = [name |-> "producer"]
    /\ pre_columns' = columns
    /\ UNCHANGED <<procVars, window_size, engineVars, orchVars, config_q,
                   shutdown_requested, window_should_close, reloads, hist>>

\* gui_run up to the for loop: no snapshot is queued, is_focused() is read,
\* try_iter().collect() takes all queued events; hist.calls starts the record
\* of this tick
TapCollect ==
    /\ pc = "tap_wait"
    /\ input_q # << >>
    /\ events' = input_q
    /\ input_q' = << >>
    /\ is_window_focused' \in BOOLEAN
    /\ should_close' = FALSE
    /\ pc' = "tap_apply"
    /\ hist' = [hist EXCEPT !.calls = << >>]
    /\ last_op' = [name |-> "collected"]
    /\ pre_columns' = columns
    /\ UNCHANGED <<procVars, window_size, engineVars, escape_down,
                   last_escape_press_at, config_q, shutdown_requested,
                   window_should_close, envVars>>

\* process_input_events: one iteration of the for loop
TapApplyEvent ==
    /\ pc = "tap_apply"
    /\ events # << >>
    /\ \E d \in LoopSteps :
          LET msg == next_event(events)
              t   == press_instant(now + d, msg.produced_at)
              det == detector_step(msg.ev, is_window_focused, escape_down,
                                   last_escape_press_at, t)
              rec == [ev |-> msg.ev, produced_at |-> msg.produced_at,
                      at |-> now + d, result |-> det.result,
                      down_before |-> escape_down,
                      armed_before |-> last_escape_press_at]
          IN  /\ now' = now + d
              /\ escape_down' = det.escape_down
              /\ last_escape_press_at' = det.last_escape_press_at
              /\ should_close' = (should_close \/ det.result)
              /\ columns' = renderer_step(msg.ev, config, columns)
              /\ events' = Tail(events)
              /\ hist' = [hist EXCEPT !.calls = Append(@, rec)]
              /\ last_op' = [name |-> "tap_apply", focused |-> is_window_focused]
    /\ pre_columns' = columns
    /\ UNCHANGED <<procVars, window_size, config, key_positions, bar_speed,
                   last_frame_time, pc, is_window_focused, sharedVars, sent,
                   reloads>>

\* gui_run after the for loop: the close decision, then Renderer::gui_run
TapFinishTick ==
    /\ pc = "tap_apply"
    /\ events = << >>
    /\ window_should_close' =
          (window_should_close \/ exit_decision(should_close, shutdown_requested))
    /\ \E current_time \in FrameTimes :
          LET dt == frame_dt(last_frame_time, current_time)
          IN  /\ last_frame_time' = Some(current_time - current_time)
              /\ columns' = update_animation(columns, dt, bar_speed, config.height)
    /\ window_size' = sync_window_size(window_size, config)
    /\ last_op' = [name |-> "tap_finish", from_escape |-> should_close]
    /\ pre_columns' = columns
    /\ pc' = IF window_should_close' THEN "closed" ELSE "tap_wait"
    /\ UNCHANGED <<procVars, config, key_positions, bar_speed, escape_down,
                   last_escape_press_at, events, should_close,
                   is_window_focused, input_q, config_q, shutdown_requested,
                   envVars, hist>>

TapNext ==
    \/ TapSendInput
    \/ TapCollect
    \/ TapApplyEvent
    \/ TapFinishTick

TapSpec == TapInit /\ [][TapNext]_vars

----------------------------------------------------------------------------
\* The Renderer alone, constructed with Renderer::new on any AppConfig and
\* driven through the methods AppOrchestrator calls (renderer.rs tests build
\* AppConfig values directly, layout.rs tests with keys: vec![])

\* RawA without keys (an AppConfig built in code: load_from_str never yields
\* an empty key list), RawA, RawB, RawA with a height of 30 px, and RawA with
\* a third key
RendererConfigs ==
    { [InitialConfig EXCEPT !.keys = << >>],
      InitialConfig,
      load_from_str(RawB)[1],
      [InitialConfig EXCEPT !.height = 300],
      [InitialConfig EXCEPT !.keys =
          Append(@, [key_name |-> "Mouse1", color |-> Red, size |-> 20])] }

RendererKeys == {"Z", ESCAPE_KEY_NAME, "Mouse1"}

RendererInit ==
    /\ window_size = HostWindowSize
    /\ \E cfg \in RendererConfigs :
          /\ config = Renderer_new(cfg).config
          /\ key_positions = Renderer_new(cfg).key_positions
          /\ columns = Renderer_new(cfg).columns
          /\ bar_speed = Renderer_new(cfg).bar_speed
          /\ last_frame_time = Renderer_new(cfg).last_frame_time
    /\ pre_columns = EmptyMap
    /\ pc = "renderer"
    /\ OrchInit

\* Renderer::on_key_press(key_name)
RendererOnKeyPress ==
    /\ pc = "renderer"
    /\ Len(hist.calls) < MaxRendererCalls
    /\ \E key \in RendererKeys :
          /\ columns' = Renderer_on_key_press(config, columns, key)
          /\ last_op' = [name |-> "on_key_press", key |-> key]
          /\ hist' = [hist EXCEPT !.calls = Append(@, "on_key_press")]
    /\ pre_columns' = columns
    /\ UNCHANGED <<procVars, window_size, config, key_positions, bar_speed,
                   last_frame_time, orchVars, sharedVars, envVars>>

\* Renderer::on_key_release(key_name)
RendererOnKeyRelease ==
    /\ pc = "renderer"
    /\ Len(hist.calls) < MaxRendererCalls
    /\ \E key \in RendererKeys :
          /\ columns' = Renderer_on_key_release(columns, key)
          /\ last_op' = [name |-> "on_key_release", key |-> key]
          /\ hist' = [hist EXCEPT !.calls = Append(@, "on_key_release")]
    /\ pre_columns' = columns
    /\ UNCHANGED <<procVars, window_size, config, key_positions, bar_speed,
                   last_frame_time, orchVars, sharedVars, envVars>>

\* a variant of the step below whose set_config rebuilds the BarManager
\* (BarManager::new(config.bar_speed)) instead of assigning its bar_speed
RendererSetConfig_new_manager ==
    /\ pc = "renderer"
    /\ Len(hist.calls) < MaxRendererCalls
    /\ \E cfg \in RendererConfigs \ {config} :
          LET set == Renderer_set_config(cfg)
          IN  /\ config' = set.config
              /\ key_positions' = set.key_positions
              /\ bar_speed' = set.bar_speed
              /\ last_op' = [name |-> "set_config", snapshot |-> cfg,
                             before |-> [config |-> config,
                                         last_frame_time |-> last_frame_time]]
    /\ columns' = EmptyMap
    /\ hist' = [hist EXCEPT !.calls = Append(@, "set_config")]
    /\ pre_columns' = columns
    /\ UNCHANGED <<procVars, window_size, last_frame_time, orchVars,
                   sharedVars, envVars>>

\* Renderer::set_config(config)
RendererSetConfig ==
    /\ pc = "renderer"
    /\ Len(hist.calls) < MaxRendererCalls
    /\ \E cfg \in RendererConfigs \ {config} :
          LET set == Renderer_set_config(cfg)
          IN  /\ config' = set.config
              /\ key_positions' = set.key_positions
              /\ bar_speed' = set.bar_speed
              /\ last_op' = [name |-> "set_config", snapshot |-> cfg,
                             before |-> [config |-> config,
                                         last_frame_time |-> last_frame_time]]
    /\ hist' = [hist EXCEPT !.calls = Append(@, "set_config")]
    /\ pre_columns' = columns
    /\ UNCHANGED <<procVars, window_size, columns, last_frame_time, orchVars,
                   sharedVars, envVars>>

\* Renderer::gui_run: sync_window_size, then update_animation
RendererGuiRun ==
    /\ pc = "renderer"
    /\ Len(hist.calls) < MaxRendererCalls
    /\ window_size' = sync_window_size(window_size, config)
    /\ \E current_time \in FrameTimes :
          LET dt == frame_dt(last_frame_time, current_time)
          IN  /\ last_frame_time' = Some(current_time - current_time)
              /\ columns' = update_animation(columns, dt, bar_speed, config.height)
              /\ last_op' = [name |-> "gui_run", dt |-> dt]
    /\ hist' = [hist EXCEPT !.calls = Append(@, "gui_run")]
    /\ pre_columns' = columns
    /\ UNCHANGED <<procVars, config, key_positions, bar_speed, orchVars,
                   sharedVars, envVars>>

RendererNext ==
    \/ RendererOnKeyPress
    \/ RendererOnKeyRelease
    \/ RendererSetConfig
    \/ RendererGuiRun

RendererSpec == RendererInit /\ [][RendererNext]_vars

----------------------------------------------------------------------------
\* The Animation Engine alone, driven through BarManager's public methods
\* (as bars.rs tests and tests/integration.rs do)

BarKeys       == {"Z", "X"}
BarSpeeds     == {60, 100}
DtValues      == {-1, 0, 5}
WindowHeights == {300, 500}

RECURSIVE SumOver(_, _)
SumOver(f, keys) ==
    IF keys = {} THEN 0
    ELSE LET k == CHOOSE x \in keys : TRUE
         IN  f[k] + SumOver(f, keys \ {k})

TotalBars(cols) ==
    SumOver([k \in DOMAIN cols |-> Len(cols[k].bars)], DOMAIN cols)
TotalPresses(cols) ==
    SumOver([k \in DOMAIN cols |-> cols[k].press_count], DOMAIN cols)

BarInit ==
    /\ window_size = HostWindowSize
    /\ config = InitialConfig
    /\ key_positions = calculate_key_x_positions(InitialConfig)
    /\ columns = EmptyMap                 \* BarManager::new
    /\ bar_speed \in BarSpeeds
    /\ last_frame_time = None
    /\ pre_columns = EmptyMap
    /\ pc = "engine"
    /\ OrchInit

\* BarManager::on_key_press(key, color)
CallOnKeyPress ==
    /\ pc = "engine"
    /\ \E key \in BarKeys, color \in Colors :
          /\ TotalBars(columns) < MaxBars
          /\ TotalPresses(columns) < MaxPresses
          /\ columns' = BarManager_on_key_press(columns, key, color)
          /\ last_op' = [name |-> "on_key_press", key |-> key, color |-> color]
          /\ hist' = [hist EXCEPT !.presses =
                        MapPut(@, key, IF key \in DOMAIN @ THEN @[key] + 1 ELSE 1)]
    /\ pre_columns' = columns
    /\ UNCHANGED <<procVars, window_size, config, key_positions, bar_speed, last_frame_time, orchVars,
                   sharedVars, envVars>>

\* BarManager::on_key_release(key)
CallOnKeyRelease ==
    /\ pc = "engine"
    /\ \E key \in BarKeys :
          /\ columns' = BarManager_on_key_release(columns, key)
          /\ last_op' = [name |-> "on_key_release", key |-> key]
    /\ pre_columns' = columns
    /\ UNCHANGED <<procVars, window_size, config, key_positions, bar_speed, last_frame_time, orchVars,
                   sharedVars, envVars, hist>>

\* BarManager::update(dt)
CallUpdate ==
    /\ pc = "engine"
    /\ \E dt \in DtValues :
          /\ \A k \in DOMAIN columns : \A i \in 1..Len(columns[k].bars) :
                columns[k].bars[i].y_position + bar_speed * Max(dt, 0) <= MaxY
          /\ columns' = BarManager_update(columns, dt, bar_speed)
          /\ last_op' = [name |-> "update", dt |-> dt]
    /\ pre_columns' = columns
    /\ UNCHANGED <<procVars, window_size, config, key_positions, bar_speed, last_frame_time, orchVars,
                   sharedVars, envVars, hist>>

\* BarManager::remove_offscreen(window_height)
CallRemoveOffscreen ==
    /\ pc = "engine"
    /\ \E window_height \in WindowHeights :
          /\ columns' = BarManager_remove_offscreen(columns, window_height)
          /\ last_op' = [name |-> "remove_offscreen",
                         window_height |-> window_height]
    /\ pre_columns' = columns
    /\ UNCHANGED <<procVars, window_size, config, key_positions, bar_speed, last_frame_time, orchVars,
                   sharedVars, envVars, hist>>

\* Renderer::set_config with a snapshot that differs from the active one in
\* bar_speed (the only field of a snapshot that reaches the BarManager)
CallSetConfig ==
    /\ pc = "engine"
    /\ \E speed \in BarSpeeds \ {bar_speed} :
          LET set == Renderer_set_config([config EXCEPT !.bar_speed = speed])
          IN  /\ config' = set.config
              /\ key_positions' = set.key_positions
              /\ bar_speed' = set.bar_speed
    /\ last_op' = [name |-> "set_config"]
    /\ pre_columns' = columns
    /\ UNCHANGED <<procVars, window_size, columns, last_frame_time, orchVars, sharedVars, envVars, hist>>

BarNext ==
    \/ CallOnKeyPress
    \/ CallOnKeyRelease
    \/ CallUpdate
    \/ CallRemoveOffscreen
    \/ CallSetConfig

BarSpec == BarInit /\ [][BarNext]_vars

----------------------------------------------------------------------------
\* The Layout Calculator alone, called on configurations as a configuration
\* file can give them (load_from_str checks none of the layout fields, so a
\* margin, an outline or a size multiplier may be zero or negative)

LayoutKeySizes == {700, 500}
LayoutMargins  == {250, 0, -1000}
LayoutOutlines == {50, 0}
LayoutSizes    == {0, SIZE_ONE, 15}
LayoutKeyNames == <<"Z", "X", "C", "V">>

LayoutKeyLists ==
    UNION { { [i \in 1..n |-> [key_name |-> LayoutKeyNames[i], color |-> Red,
                               size |-> sizes[i]]] :
              sizes \in [1..n -> LayoutSizes] } : n \in 0..MaxKeys }

LayoutConfigs ==
    { [AppConfig_default EXCEPT !.key_size = ks, !.margin = m,
                                !.outline_thickness = o, !.keys = keys] :
        ks \in LayoutKeySizes, m \in LayoutMargins, o \in LayoutOutlines,
        keys \in LayoutKeyLists }

LayoutInit ==
    /\ window_size = HostWindowSize
    /\ config \in LayoutConfigs
    /\ key_positions = << >>
    /\ columns = EmptyMap
    /\ bar_speed = config.bar_speed
    /\ last_frame_time = None
    /\ pre_columns = EmptyMap
    /\ pc = "layout"
    /\ OrchInit

\* calculate_window_width(&config)
CallCalculateWindowWidth ==
    /\ pc = "layout"
    /\ last_op' = [name |-> "calculate_window_width",
                   width |-> calculate_window_width(config)]
    /\ UNCHANGED <<procVars, window_size, engineVars, orchVars, sharedVars, envVars, pre_columns, hist>>

\* calculate_key_x_positions(&config)
CallCalculateKeyXPositions ==
    /\ pc = "layout"
    /\ key_positions' = calculate_key_x_positions(config)
    /\ last_op' = [name |-> "calculate_key_x_positions"]
    /\ UNCHANGED <<procVars, window_size, config, columns, bar_speed, last_frame_time, orchVars,
                   sharedVars, envVars, pre_columns, hist>>

LayoutNext ==
    \/ CallCalculateWindowWidth
    \/ CallCalculateKeyXPositions

LayoutSpec == LayoutInit /\ [][LayoutNext]_vars

----------------------------------------------------------------------------
\* The Fade Compositor alone, called on positions below, inside and above the
\* fade region, with positive, zero and negative fade heights

FadeYs            == {350 * k : k \in -1..22} \cup {1000, 1600, 2999, 6999, 7001}
FadeWindowHeights == {7000, 3000}
FadeHeights       == {1400, 0, -100, 7000}

FadeInit ==
    /\ window_size = HostWindowSize
    /\ config = InitialConfig
    /\ key_positions = calculate_key_x_positions(InitialConfig)
    /\ columns = EmptyMap
    /\ bar_speed = InitialConfig.bar_speed
    /\ last_frame_time = None
    /\ pre_columns = EmptyMap
    /\ pc = "fade"
    /\ OrchInit

\* calculate_fade_alpha(y_position, window_height, fade_height)
CallCalculateFadeAlpha ==
    /\ pc = "fade"
    /\ \E y \in FadeYs, wh \in FadeWindowHeights, fh \in FadeHeights :
          last_op' = [name |-> "calculate_fade_alpha",
                      y_position |-> y, window_height |-> wh, fade_height |-> fh,
                      alpha |-> calculate_fade_alpha(y, wh, fh)]
    /\ UNCHANGED <<procVars, window_size, engineVars, orchVars, sharedVars, envVars, pre_columns, hist>>

FadeNext == CallCalculateFadeAlpha

FadeSpec == FadeInit /\ [][FadeNext]_vars

----------------------------------------------------------------------------
\* Properties of the Frame Orchestrator (checked under Spec)

\* C1: within one tick every configuration snapshot that was pending when
\* the tick started has been applied before any input event of that tick is
\* applied, and input events are applied in the order in which they were
\* queued (the n-th event applied is the n-th event sent).
C1_ConfigBeforeInput ==
    last_op.name = "apply" =>
        /\ hist.cfg_applied >= hist.cfg_sent_at_start
        /\ config_q = << >> \/ config_q[1].seq > hist.cfg_sent_at_start
        /\ last_op.seq = hist.in_applied
        /\ last_op.ev = sent[last_op.seq]

\* C1 witness: an input event is applied in a tick at whose start a snapshot
\* was pending, and a further collected event of the same tick follows it
C1_Witness ==
    /\ last_op.name = "apply"
    /\ hist.cfg_sent_at_start > hist.cfg_applied_at_start
    /\ hist.cfg_applied = hist.cfg_sent_at_start
    /\ events # << >>

\* C2: when the configuration drain of a tick ends the configuration queue
\* is empty; if n >= 1 snapshots were pending, the Renderer's config,
\* key_positions and the engine's bar_speed are those of the last snapshot
\* only; if none was pending all three are as they were before the drain.
C2_LastSnapshotWins ==
    last_op.name = "config_drained" =>
        /\ config_q = << >>
        /\ IF last_op.drained = << >>
           THEN /\ config = last_op.start.config
                /\ key_positions = last_op.start.key_positions
                /\ bar_speed = last_op.start.bar_speed
           ELSE LET last == last_op.drained[Len(last_op.drained)]
                IN  /\ config = last
                    /\ key_positions = calculate_key_x_positions(last)
                    /\ bar_speed = last.bar_speed

\* C2 witness: a drain that applied two different snapshots whose bar_speed
\* and key positions differ
C2_Witness ==
    /\ last_op.name = "config_drained"
    /\ Len(last_op.drained) = 2
    /\ last_op.drained[1].bar_speed # last_op.drained[2].bar_speed
    /\ calculate_key_x_positions(last_op.drained[1])
          # calculate_key_x_positions(last_op.drained[2])
    /\ last_op.start.bar_speed # bar_speed

\* the sequence numbers of the messages of a queue
SeqsOf(q) == [i \in 1..Len(q) |-> q[i].seq]

\* C3: for every interleaving of the Input Source with the ticks, the events
\* sent so far are, in send order: the events already applied, then the
\* events collected by the running tick and not yet applied, then the events
\* still in the queue; no event is lost, duplicated or reordered.
C3_NoLossNoDuplication ==
    /\ hist.in_applied + Len(events) + Len(input_q) = Len(sent)
    /\ SeqsOf(events \o input_q) =
          [i \in 1..(Len(events) + Len(input_q)) |-> hist.in_applied + i]
    /\ \A i \in 1..Len(events) : events[i].ev = sent[events[i].seq]
    /\ \A i \in 1..Len(input_q) : input_q[i].ev = sent[input_q[i].seq]
    /\ last_op.name = "apply" =>
          (last_op.seq = hist.in_applied /\ last_op.ev = sent[hist.in_applied])
    /\ last_op.name = "collected" => input_q = << >>

\* C3 witness: one event has been applied, another one collected by the same
\* tick is waiting, and a third one was sent meanwhile and is in the queue
C3_Witness ==
    /\ last_op.name = "producer"
    /\ pc = "apply"
    /\ hist.in_applied >= 1
    /\ events # << >>
    /\ input_q # << >>

\* two records of the same bar (its colours never change)
SameBarIdentity(a, b) == a.color = b.color /\ a.pressed_color = b.pressed_color

EscapePressApplied ==
    /\ last_op.name = "apply"
    /\ last_op.ev.kind = "KeyPress"
    /\ last_op.ev.key = "Escape"

\* the statement of C4 as the specification words it: two Escape presses
\* with a release between them, at most 400 ms apart, make the tick request
\* close; a single press, or two presses farther apart, do not
C4_AsStated ==
    /\ EscapePressApplied =>
          /\ ( /\ last_op.prev_at # None
               /\ last_op.released
               /\ now - last_op.prev_at[1] <= 4 ) => should_close
          /\ ( \/ last_op.prev_at = None
               \/ now - last_op.prev_at[1] > 4 ) => ~last_op.closed
    /\ last_op.name = "finish" =>
          /\ last_op.from_escape => window_should_close
          /\ (~last_op.from_escape /\ ~last_op.from_signal) => ~window_should_close

\* C4 (amended): two Escape presses with a release between them, both
\* processed while the overlay window is focused, the first of them processed
\* while Escape was not recorded as down, and processed at most 400 ms apart,
\* make the tick request close; a single press, or two presses processed
\* farther apart, do not.
C4_DoubleEscape ==
    /\ EscapePressApplied =>
          /\ ( /\ last_op.prev_at # None
               /\ last_op.released
               /\ last_op.prev_counted
               /\ last_op.focused
               /\ now - last_op.prev_at[1] <= 4 ) => should_close
          /\ ( \/ last_op.prev_at = None
               \/ now - last_op.prev_at[1] > 4 ) => ~last_op.closed
    /\ last_op.name = "finish" =>
          /\ last_op.from_escape => window_should_close
          /\ (~last_op.from_escape /\ ~last_op.from_signal) => ~window_should_close

\* C4 witness: the second of two focused presses, exactly 400 ms after the
\* first and after a release, is the one that requests close
C4_Witness ==
    /\ EscapePressApplied
    /\ last_op.prev_at # None
    /\ last_op.released
    /\ last_op.prev_counted
    /\ last_op.focused
    /\ now - last_op.prev_at[1] = 4
    /\ last_op.closed
    /\ should_close

\* C5: every tick that evaluates its exit conditions while the shutdown flag
\* is set requests window close, whether or not an input event is pending;
\* no step of the orchestrator clears the flag.
C5_ShutdownFlag ==
    /\ [](last_op.name = "finish" /\ last_op.from_signal =>
            window_should_close /\ pc = "closed")
    /\ [][shutdown_requested => shutdown_requested']_vars

\* C5 witness: a tick closes on the flag alone, no double Escape, while an
\* input event is still pending in the queue
C5_Witness ==
    /\ last_op.name = "finish"
    /\ last_op.from_signal
    /\ ~last_op.from_escape
    /\ input_q # << >>
    /\ window_should_close
    /\ shutdown_requested

\* C15: in every reachable state of the running system the engine's
\* bar_speed is non-negative, whatever bar_speed the reloaded files gave, and
\* the advance of a frame (dt >= 0) leaves no bar lower than it was: the bars
\* left after the frame are the newest bars of before, none with a smaller
\* y_position.
C15_YNeverDecreases ==
    /\ bar_speed >= 0
    /\ config.bar_speed >= 0
    /\ \A i \in 1..Len(config_q) : config_q[i].cfg.bar_speed >= 0
    /\ last_op.name = "finish" =>
          /\ last_op.dt >= 0
          /\ \A k \in DOMAIN pre_columns :
                LET old == pre_columns[k].bars
                    new == columns[k].bars
                    off == Len(old) - Len(new)
                IN  /\ off >= 0
                    /\ \A j \in 1..Len(new) :
                          /\ SameBarIdentity(new[j], old[j + off])
                          /\ new[j].y_position >= old[j + off].y_position

\* C15 witness: the file was reloaded with a negative bar_speed, the snapshot
\* was applied, and a frame with dt > 0 moved a bar up
C15_Witness ==
    /\ last_op.name = "finish"
    /\ last_op.dt > 0
    /\ reloads = <<RawNegSpeed>>
    /\ hist.cfg_applied = 1
    /\ \E k \in DOMAIN pre_columns :
          /\ pre_columns[k].bars # << >>
          /\ columns[k].bars # << >>
          /\ Last(columns[k].bars).y_position > Last(pre_columns[k].bars).y_position

\* the reloads so far whose file could be read and parsed
ParsedReloads == {i \in 1..Len(reloads) : reloads[i].parse_ok}

\* C19: a reload that fails to read or parse enqueues nothing and changes
\* neither the active configuration nor anything derived from it, and does
\* not stop the run; so the snapshots delivered so far are exactly as many as
\* the reloads that parsed, and a later drain finds nothing from the failed
\* reload.
C19_FailedReloadIgnored ==
    /\ [](hist.cfg_sent = Cardinality(ParsedReloads))
    /\ [][ (reloads' # reloads /\ ~Last(reloads').parse_ok) =>
             /\ config_q' = config_q
             /\ config' = config
             /\ key_positions' = key_positions
             /\ bar_speed' = bar_speed
             /\ columns' = columns
             /\ pc' = pc
             /\ pc' # "closed"
             /\ window_should_close' = window_should_close ]_vars

\* C19 witness: after a reload that was applied, a reload failed; the next
\* drain found nothing and the active configuration is still the applied one
C19_Witness ==
    /\ reloads = <<RawB, RawBad>>
    /\ last_op.name = "config_drained"
    /\ last_op.drained = << >>
    /\ hist.cfg_applied = 1
    /\ hist.cfg_sent = 1
    /\ config.height = 300
    /\ config = last_op.start.config
    /\ bar_speed = 300

\* a file that parses and gives a bar_speed that is zero or negative
NonPositiveSpeed(raw) ==
    raw.parse_ok /\ raw.bar_speed # None /\ raw.bar_speed[1] <= 0

\* C20 as stated: a reloaded configuration whose bar_speed is <= 0 is not
\* delivered, so the snapshots delivered so far are as many as the reloads
\* that parsed with an acceptable bar_speed.
C20_AsStated ==
    hist.cfg_sent =
        Cardinality({i \in ParsedReloads : ~NonPositiveSpeed(reloads[i])})

\* C20: a reloaded configuration whose bar_speed is <= 0 is delivered: one
\* snapshot is enqueued, carrying the default bar_speed and every other field
\* as the file gives it (the default where the file is silent); the active
\* configuration changes only when the orchestrator drains the queue.
C20_NonPositiveSpeedDefaulted ==
    [][ (reloads' # reloads /\ NonPositiveSpeed(Last(reloads'))) =>
         /\ Len(config_q') = Len(config_q) + 1
         /\ LET raw == Last(reloads')
                cfg == Last(config_q').cfg
            IN  /\ cfg.bar_speed = DEFAULT_BAR_SPEED
                /\ cfg.height = unwrap_or(raw.height, DEFAULT_HEIGHT)
                /\ cfg.key_size = unwrap_or(raw.key_size, DEFAULT_KEY_SIZE)
                /\ cfg.margin = unwrap_or(raw.margin, DEFAULT_MARGIN)
                /\ cfg.outline_thickness =
                       unwrap_or(raw.outline_thickness, DEFAULT_OUTLINE)
                /\ cfg.fading = unwrap_or(raw.fading, TRUE)
                /\ cfg.counter = unwrap_or(raw.counter, TRUE)
                /\ cfg.fps = unwrap_or(raw.fps, DEFAULT_FPS)
                /\ cfg.keys = IF raw.key = << >> THEN DefaultKeys ELSE raw.key
         /\ config' = config
         /\ bar_speed' = bar_speed ]_vars

\* C20 witness: a file with bar_speed 0 was reloaded and the drain applied its
\* snapshot: the active configuration changed to the file's fields with the
\* default bar_speed
C20_Witness ==
    /\ reloads = <<RawBad, RawZeroSpeed>>
    /\ last_op.name = "config_drained"
    /\ Len(last_op.drained) = 1
    /\ config # last_op.start.config
    /\ config.keys = DefaultKeys
    /\ config.height = 600
    /\ config.bar_speed = DEFAULT_BAR_SPEED
    /\ bar_speed = DEFAULT_BAR_SPEED

\* C28: the frame advances the bars and then culls with the height of the
\* active configuration, so the bars left for drawing are exactly the bars of
\* before whose advanced y_position does not exceed that height, and no bar
\* handed to draw lies beyond it, also when this tick's reload lowered it.
C28_CullBeforeDraw ==
    last_op.name = "finish" =>
        /\ DOMAIN columns = DOMAIN pre_columns
        /\ \A k \in DOMAIN columns :
              LET old   == pre_columns[k].bars
                  new   == columns[k].bars
                  delta == bar_speed * last_op.dt
              IN  /\ Len(new) = Cardinality({i \in 1..Len(old) :
                                    old[i].y_position + delta <= config.height})
                  /\ \A j \in 1..Len(new) : new[j].y_position <= config.height

\* C28 witness: the tick applied a reload that lowered the height from 60 to
\* 30 pixels; a bar that was inside the old window and beyond the new height
\* is gone at draw time
C28_Witness ==
    /\ last_op.name = "finish"
    /\ config.height = 300
    /\ hist.cfg_applied >= 1
    /\ \E k \in DOMAIN pre_columns :
          /\ pre_columns[k].bars # << >>
          /\ pre_columns[k].bars[1].y_position > 300
          /\ pre_columns[k].bars[1].y_position <= 600
          /\ Len(columns[k].bars) < Len(pre_columns[k].bars)

\* C29: the dt of a frame is 0 in the first frame and otherwise the time
\* elapsed since the previous frame, raised to 0 and lowered to 0.1 s; so in
\* one frame no bar moves or grows by more than bar_speed * 0.1, and when the
\* clock went backwards (or did not move) the bars left are as they were.
C29_ClampedDt ==
    last_op.name = "finish" =>
        /\ last_op.dt >= 0
        /\ last_op.dt <= MAX_DT
        /\ last_op.elapsed = None => last_op.dt = 0
        /\ last_op.elapsed # None =>
              LET e == last_op.elapsed[1]
              IN  /\ e <= 0 => last_op.dt = 0
                  /\ (0 <= e /\ e <= MAX_DT) => last_op.dt = e
                  /\ e >= MAX_DT => last_op.dt = MAX_DT
        /\ \A k \in DOMAIN pre_columns :
              LET old == pre_columns[k].bars
                  new == columns[k].bars
                  off == Len(old) - Len(new)
              IN  \A j \in 1..Len(new) :
                     /\ new[j].y_position - old[j + off].y_position
                           <= bar_speed * MAX_DT
                     /\ new[j].height - old[j + off].height <= bar_speed * MAX_DT
                     /\ (last_op.elapsed = None \/ last_op.elapsed[1] <= 0) =>
                           new[j] = old[j + off]

\* C29 witness: 200 ms have passed since the previous frame; the dt is 0.1 s
\* and the held bar has moved and grown by bar_speed * 0.1
C29_Witness ==
    /\ last_op.name = "finish"
    /\ last_op.elapsed = Some(2)
    /\ last_op.dt = MAX_DT
    /\ \E k \in DOMAIN columns :
          /\ columns[k].bars # << >>
          /\ Len(columns[k].bars) = Len(pre_columns[k].bars)
          /\ columns[k].is_held
          /\ Last(columns[k].bars).y_position =
                Last(pre_columns[k].bars).y_position + bar_speed * MAX_DT
          /\ Last(columns[k].bars).height =
                Last(pre_columns[k].bars).height + bar_speed * MAX_DT

\* the render thread is inside a tick
InTick == pc \in {"config", "collect", "apply"}

----------------------------------------------------------------------------
\* Properties of the process lifecycle (checked under RunSpec)

\* the input thread has left run_input_backend without a call of stop: the
\* way out after a failed start
StartFailed == input_thread = "exited" /\ backend.stop_calls = 0

\* some step of one tick can be taken
TickEnabled ==
    ENABLED (ProcessConfigRecv \/ ProcessConfigDone \/ CollectRecv
             \/ CollectDone \/ ApplyEvent \/ FinishTick)

\* C21: when backend.start fails the input thread exits at once, stop is not
\* called and start is never called again; the failure changes nothing in the
\* main thread (run goes on, its result is not set, the tick goes on), the
\* ticks stay enabled, and no input event is ever sent, queued or applied, so
\* no column and no bar is ever created.
C21_StartFailure ==
    /\ [][(last_op'.name = "backend_start" /\ last_op' # last_op
              /\ ~last_op'.ok) =>
             /\ input_thread' = "exited"
             /\ ~backend'.started
             /\ backend'.stop_calls = 0
             /\ run_pc' = run_pc
             /\ run_result' = run_result
             /\ pc' = pc ]_vars
    /\ [][input_thread = "exited" =>
             (input_thread' = "exited" /\ backend' = backend)]_vars
    /\ [](backend.start_calls <= 1)
    /\ [](StartFailed =>
             /\ backend.start_calls = 1
             /\ ~backend.started
             /\ sent = << >>
             /\ input_q = << >>
             /\ events = << >>
             /\ hist.in_applied = 0
             /\ columns = EmptyMap
             /\ (pc \in {"config", "collect", "apply"} => TickEnabled))

\* C21 witness: the start failed, and afterwards the render loop applied a
\* reloaded configuration and finished a tick, with no column
C21_Witness ==
    /\ StartFailed
    /\ run_pc = "render_loop"
    /\ run_result = None
    /\ last_op.name = "finish"
    /\ hist.cfg_applied >= 1
    /\ columns = EmptyMap
    /\ backend.start_calls = 1

\* the four fallible startup steps of run, all successful
StartupSucceeded ==
    hist.startup = << [step |-> "ensure_config_exists", ok |-> TRUE],
                      [step |-> "start_input_thread",   ok |-> TRUE],
                      [step |-> "ConfigWatcher_new",    ok |-> TRUE],
                      [step |-> "ConfigWatcher_start",  ok |-> TRUE] >>

StartupFailed == \E i \in 1..Len(hist.startup) : ~hist.startup[i].ok

\* C22: the render loop (the first gui_run) is started only after the initial
\* configuration load, the input-thread spawn, ConfigWatcher::new and
\* ConfigWatcher::start have all succeeded, in this order; a failure of any of
\* them makes run return Err at once, with no window, no renderer state and no
\* tick, and nothing is started after run has returned.
C22_StartupAllOrNothing ==
    /\ [](pc # "idle" => StartupSucceeded)
    /\ [](StartupFailed =>
             /\ ~hist.startup[Len(hist.startup)].ok
             /\ run_pc = "returned"
             /\ run_result = Some("Err")
             /\ pc = "idle"
             /\ window_size = None
             /\ key_positions = << >>
             /\ hist.cfg_applied = 0
             /\ hist.in_applied = 0)
    /\ [][run_pc = "returned" =>
             (run_pc' = "returned" /\ pc' = pc /\ run_result' = run_result)]_vars

\* C22 witness: ConfigWatcher::start failed after the input thread had
\* started its backend and sent an event; run has returned Err and no tick
\* ever ran
C22_Witness ==
    /\ Len(hist.startup) = 4
    /\ ~hist.startup[4].ok
    /\ backend.started
    /\ sent # << >>
    /\ input_q # << >>
    /\ run_result = Some("Err")
    /\ pc = "idle"

----------------------------------------------------------------------------
\* Properties of the ConfigWatcher (checked under WatcherSpec)

\* some start among the calls returned Ok and no stop was called after it
RunningAfter(calls) ==
    \E i \in 1..Len(calls) :
        /\ calls[i].op = "start"
        /\ calls[i].ok
        /\ \A j \in (i + 1)..Len(calls) : calls[j].op # "stop"

\* C23: start on a running watcher returns Ok and leaves the watcher as it is
\* (no debouncer is created); stop always returns Ok and changes nothing when
\* the watcher is not running; at most one debouncer is alive; and after any
\* sequence of calls the watcher is running exactly when some start succeeded
\* with no stop after it.
C23_WatcherIdempotent ==
    /\ watcher[1].debouncer = RunningAfter(hist.calls)
    /\ watcher[1].created - watcher[1].dropped =
          (IF watcher[1].debouncer THEN 1 ELSE 0)
    /\ (last_op.name = "watcher_start" /\ last_op.before.debouncer) =>
          (last_op.ok /\ watcher[1] = last_op.before)
    /\ last_op.name = "watcher_stop" =>
          /\ last_op.ok
          /\ ~watcher[1].debouncer
          /\ (~last_op.before.debouncer => watcher[1] = last_op.before)

\* C23 witness: start, stop, start, then a start on the running watcher:
\* still the second debouncer, and running
C23_Witness ==
    /\ hist.calls = << [op |-> "start", ok |-> TRUE], [op |-> "stop", ok |-> TRUE],
                       [op |-> "start", ok |-> TRUE], [op |-> "start", ok |-> TRUE] >>
    /\ last_op.name = "watcher_start"
    /\ last_op.before.debouncer
    /\ watcher[1] = [debouncer |-> TRUE, created |-> 2, dropped |-> 1]

----------------------------------------------------------------------------
\* Properties of the double-Escape detector (checked under DetectorSpec)

\* the last step processed an Escape press that the detector counted: window
\* focused, key not recorded as down
CountedPress ==
    /\ last_op.name = "detector"
    /\ last_op.ev = KeyPress(ESCAPE_KEY_NAME)
    /\ last_op.focused
    /\ ~last_op.down_before

C26_ReleaseKeepsArmed ==
    (last_op.name = "detector" /\ last_op.ev = KeyRelease(ESCAPE_KEY_NAME)) =>
        /\ ~escape_down
        /\ last_escape_press_at = last_op.armed_before
        /\ ~last_op.result

\* C26 witness: a release processed in an unfocused tick while the key is
\* down and the detector armed; the detector stays armed
C26_Witness ==
    /\ last_op.name = "detector"
    /\ last_op.ev = KeyRelease(ESCAPE_KEY_NAME)
    /\ ~last_op.focused
    /\ last_op.down_before
    /\ last_op.armed_before # None
    /\ last_escape_press_at = last_op.armed_before
    /\ ~escape_down

\* C27: a cancel-key press processed while the key is recorded as down never
\* requests close and leaves both the armed timestamp and the down bit as
\* they were.
C27_EdgeTriggered ==
    (last_op.name = "detector" /\ last_op.ev = KeyPress(ESCAPE_KEY_NAME)
       /\ last_op.down_before) =>
        /\ ~last_op.result
        /\ last_escape_press_at = last_op.armed_before
        /\ escape_down

\* C27 witness: two focused presses with no release between them and no time
\* elapsed; the second does not close and the detector stays armed at the
\* first
C27_Witness ==
    /\ Len(hist.calls) = 2
    /\ \A i \in {1, 2} : /\ hist.calls[i].ev = KeyPress(ESCAPE_KEY_NAME)
                          /\ hist.calls[i].focused
    /\ hist.calls[2].at = hist.calls[1].at
    /\ ~hist.calls[2].result
    /\ last_escape_press_at = Some(hist.calls[1].at)
    /\ last_op.down_before

----------------------------------------------------------------------------
\* Properties of the Animation Engine (checked under BarSpec)

\* the column of key k before the last operation, a fresh one if it had none
ColumnBefore(k) ==
    IF k \in DOMAIN pre_columns THEN pre_columns[k]
    ELSE [bars |-> << >>, press_count |-> 0, is_held |-> FALSE]

OthersUnchanged(k) ==
    \A j \in (DOMAIN pre_columns \cup DOMAIN columns) \ {k} :
        j \in DOMAIN pre_columns /\ j \in DOMAIN columns /\ columns[j] = pre_columns[j]

\* C6: on_press(key) always succeeds: the key has a column afterwards, whose
\* bars are the previous bars followed by one new bar with y_position 0 and
\* height 1 (10 tenths), whose press_count is one more than before and whose
\* is_held is TRUE, also when the column was already held; every other
\* column is unchanged.
C6_OnPress ==
    last_op.name = "on_key_press" =>
        LET k == last_op.key
            before == ColumnBefore(k)
        IN  /\ k \in DOMAIN columns
            /\ Len(columns[k].bars) = Len(before.bars) + 1
            /\ SubSeq(columns[k].bars, 1, Len(before.bars)) = before.bars
            /\ Last(columns[k].bars).y_position = 0
            /\ Last(columns[k].bars).height = 10
            /\ columns[k].press_count = before.press_count + 1
            /\ columns[k].is_held = TRUE
            /\ OthersUnchanged(k)

\* C6 witness: a press of a key whose column is already held, with a second
\* column present
C6_Witness ==
    /\ last_op.name = "on_key_press"
    /\ last_op.key \in DOMAIN pre_columns
    /\ pre_columns[last_op.key].is_held
    /\ pre_columns[last_op.key].bars # << >>
    /\ DOMAIN pre_columns # {last_op.key}

\* C7: on_release(key) sets is_held = FALSE on the key's column if it exists
\* and changes nothing else (bars, press_count, other columns, bar_speed);
\* for a key without a column it changes nothing and creates no column.
C7_OnRelease ==
    [][ last_op'.name = "on_key_release" =>
          LET k == last_op'.key
          IN  /\ bar_speed' = bar_speed
              /\ DOMAIN columns' = DOMAIN columns
              /\ \A j \in DOMAIN columns \ {k} : columns'[j] = columns[j]
              /\ k \in DOMAIN columns =>
                    /\ columns'[k].is_held = FALSE
                    /\ columns'[k].bars = columns[k].bars
                    /\ columns'[k].press_count = columns[k].press_count
                    /\ columns'[k].color = columns[k].color ]_vars

\* C7 witness: a release of a held key whose column has a bar, while the
\* other key has no column
C7_Witness ==
    /\ last_op.name = "on_key_release"
    /\ last_op.key \in DOMAIN pre_columns
    /\ pre_columns[last_op.key].is_held
    /\ pre_columns[last_op.key].bars # << >>
    /\ ~columns[last_op.key].is_held
    /\ DOMAIN columns # BarKeys

SameGeometry(a, b) ==
    /\ DOMAIN a = DOMAIN b
    /\ \A k \in DOMAIN a :
          /\ Len(a[k].bars) = Len(b[k].bars)
          /\ \A i \in 1..Len(a[k].bars) :
                /\ a[k].bars[i].y_position = b[k].bars[i].y_position
                /\ a[k].bars[i].height = b[k].bars[i].height

\* C8: for every dt <= 0, advance(dt) leaves every bar's y_position and
\* height unchanged in every column, held or not.
C8_AdvanceNonPositive ==
    (last_op.name = "update" /\ last_op.dt <= 0) => SameGeometry(columns, pre_columns)

\* C8 witness: advance with a negative dt while a held column has a bar
C8_Witness ==
    /\ last_op.name = "update"
    /\ last_op.dt < 0
    /\ \E k \in DOMAIN pre_columns :
          pre_columns[k].is_held /\ pre_columns[k].bars # << >>

\* C9: for every dt > 0, advance(dt) adds exactly bar_speed*dt to the
\* y_position of every bar of every column, and to the height of the last bar
\* of each held column; all other heights are unchanged.  Press, then
\* advance(0.5) at bar_speed 60 gives height 31 and y_position 30.
C9_AdvancePositive ==
    (last_op.name = "update" /\ last_op.dt > 0) =>
        /\ DOMAIN columns = DOMAIN pre_columns
        /\ \A k \in DOMAIN pre_columns :
              LET old == pre_columns[k].bars
                  new == columns[k].bars
              IN  /\ Len(new) = Len(old)
                  /\ \A i \in 1..Len(old) :
                        /\ new[i].y_position = old[i].y_position + bar_speed * last_op.dt
                        /\ new[i].height =
                              IF pre_columns[k].is_held /\ i = Len(old)
                              THEN old[i].height + bar_speed * last_op.dt
                              ELSE old[i].height
                  /\ ( /\ bar_speed = 60
                       /\ last_op.dt = 5
                       /\ pre_columns[k].is_held
                       /\ Len(old) = 1
                       /\ old[1].y_position = 0
                       /\ old[1].height = 10 )
                     => (new[1].height = 310 /\ new[1].y_position = 300)

\* C9 witness: at bar_speed 60 a held column with one freshly pressed bar and
\* a column that is not held are advanced by 0.5 s; the held bar has height 31
\* and y_position 30, the other bar moved and kept its height
C9_Witness ==
    /\ last_op.name = "update"
    /\ last_op.dt = 5
    /\ bar_speed = 60
    /\ \E k \in DOMAIN pre_columns :
          /\ pre_columns[k].is_held
          /\ Len(pre_columns[k].bars) = 1
          /\ pre_columns[k].bars[1].y_position = 0
          /\ pre_columns[k].bars[1].height = 10
          /\ columns[k].bars[1].y_position = 300
          /\ columns[k].bars[1].height = 310
    /\ \E k \in DOMAIN pre_columns :
          /\ ~pre_columns[k].is_held
          /\ Len(pre_columns[k].bars) = 1
          /\ columns[k].bars[1].height = pre_columns[k].bars[1].height
          /\ columns[k].bars[1].y_position = pre_columns[k].bars[1].y_position + 300

\* the index in bars of the j-th bar that is not beyond window_height
Survivor(bars, window_height, j) ==
    LET S == {i \in 1..Len(bars) : bars[i].y_position <= window_height}
    IN  CHOOSE i \in S : Cardinality({m \in S : m <= i}) = j

\* C10: cull(window_height) removes from every column exactly the bars with
\* y_position > window_height (a bar at window_height survives) and leaves
\* the surviving bars unchanged and in their previous relative order.
C10_Cull ==
    last_op.name = "remove_offscreen" =>
        /\ DOMAIN columns = DOMAIN pre_columns
        /\ \A k \in DOMAIN pre_columns :
              LET old == pre_columns[k].bars
                  new == columns[k].bars
                  h   == last_op.window_height
              IN  /\ Len(new) = Cardinality({i \in 1..Len(old) : old[i].y_position <= h})
                  /\ \A j \in 1..Len(new) : new[j] = old[Survivor(old, h, j)]

\* C10 witness: the older bar is beyond window_height, the newer one exactly
\* at window_height, and only the newer one is left
C10_Witness ==
    /\ last_op.name = "remove_offscreen"
    /\ \E k \in DOMAIN pre_columns :
          /\ Len(pre_columns[k].bars) = 2
          /\ pre_columns[k].bars[1].y_position > last_op.window_height
          /\ pre_columns[k].bars[2].y_position = last_op.window_height
          /\ columns[k].bars = <<pre_columns[k].bars[2]>>

\* C11: there is exactly one column per key that has been pressed, and its
\* press_count is the number of presses applied for that key (press, release,
\* press gives 2); release, advance, cull and a configuration reload leave
\* every press_count, and the set of columns, as they were.
C11_PressCount ==
    /\ DOMAIN columns = DOMAIN hist.presses
    /\ \A k \in DOMAIN columns : columns[k].press_count = hist.presses[k]
    /\ last_op.name \in {"on_key_release", "update", "remove_offscreen", "set_config"} =>
          /\ DOMAIN columns = DOMAIN pre_columns
          /\ \A k \in DOMAIN columns :
                columns[k].press_count = pre_columns[k].press_count

\* C11 witness: the second press of a key after its release: one column for
\* that key, press_count 2
C11_Witness ==
    /\ last_op.name = "on_key_press"
    /\ last_op.key \in DOMAIN pre_columns
    /\ ~pre_columns[last_op.key].is_held
    /\ pre_columns[last_op.key].press_count = 1
    /\ columns[last_op.key].press_count = 2
    /\ DOMAIN columns = {last_op.key}

\* bar i of column k can no longer grow: a newer bar follows it, or its key
\* is released
Frozen(cols, k, i) == i < Len(cols[k].bars) \/ ~cols[k].is_held

\* C12: over press, release, advance, cull and reload steps a bar's height
\* changes only in an advance with dt > 0 while the bar is the last bar of a
\* held column; a bar that has a newer bar after it, or whose key has been
\* released, keeps its height and stays in that condition in every later
\* state in which it exists.
C12_HeightOnlyGrowsWhileHeld ==
    [][ \A k \in DOMAIN columns :
          /\ k \in DOMAIN columns'
          /\ IF last_op'.name = "remove_offscreen"
             THEN \A j \in 1..Len(columns'[k].bars) :
                    LET i == Survivor(columns[k].bars, last_op'.window_height, j)
                    IN  /\ columns'[k].bars[j].height = columns[k].bars[i].height
                        /\ Frozen(columns, k, i) => Frozen(columns', k, j)
             ELSE \A i \in 1..Len(columns[k].bars) :
                    /\ i <= Len(columns'[k].bars)
                    /\ columns'[k].bars[i].height # columns[k].bars[i].height =>
                          /\ last_op'.name = "update"
                          /\ last_op'.dt > 0
                          /\ i = Len(columns[k].bars)
                          /\ columns[k].is_held
                    /\ Frozen(columns, k, i) =>
                          /\ Frozen(columns', k, i)
                          /\ columns'[k].bars[i].height = columns[k].bars[i].height
      ]_vars

\* C12 witness: an advance with dt > 0 over a held column with two bars: only
\* the last bar grew
C12_Witness ==
    /\ last_op.name = "update"
    /\ last_op.dt > 0
    /\ \E k \in DOMAIN pre_columns :
          /\ pre_columns[k].is_held
          /\ Len(pre_columns[k].bars) = 2
          /\ columns[k].bars[1].height = pre_columns[k].bars[1].height
          /\ columns[k].bars[2].height > pre_columns[k].bars[2].height

\* C13: press, release, advance and reload remove no bar (every bar of every
\* column is still there, at its place); cull removes a bar only if its
\* y_position is strictly greater than the window height it was given.
C13_OnlyCullRemoves ==
    /\ last_op.name \in {"on_key_press", "on_key_release", "update", "set_config"} =>
          \A k \in DOMAIN pre_columns :
              /\ k \in DOMAIN columns
              /\ Len(columns[k].bars) >= Len(pre_columns[k].bars)
              /\ \A i \in 1..Len(pre_columns[k].bars) :
                    SameBarIdentity(columns[k].bars[i], pre_columns[k].bars[i])
    /\ last_op.name = "remove_offscreen" =>
          \A k \in DOMAIN pre_columns :
              LET h == last_op.window_height
                  old == pre_columns[k].bars
                  new == IF k \in DOMAIN columns THEN columns[k].bars ELSE << >>
                  inside(bars) == {i \in 1..Len(bars) : bars[i].y_position <= h}
              IN  /\ k \in DOMAIN columns
                  /\ Cardinality(inside(new)) = Cardinality(inside(old))
                  /\ \A j \in 1..Cardinality(inside(old)) :
                        new[Survivor(new, h, j)] = old[Survivor(old, h, j)]

\* C13 witness: a cull removes a bar above the window height and keeps a bar
\* that is strictly inside the window but whose far edge is beyond it
C13_Witness ==
    /\ last_op.name = "remove_offscreen"
    /\ \E k \in DOMAIN pre_columns :
          /\ Len(columns[k].bars) < Len(pre_columns[k].bars)
          /\ pre_columns[k].bars[1].y_position > last_op.window_height
    /\ \E k \in DOMAIN columns : \E i \in 1..Len(columns[k].bars) :
          /\ columns[k].bars[i].y_position < last_op.window_height
          /\ columns[k].bars[i].y_position + columns[k].bars[i].height
                > last_op.window_height

\* C14: a column appears only in a press of its key, for a key that had no
\* column; a column is never removed, and release, advance and cull leave its
\* press_count (and, for advance and cull, its is_held) as they were, also
\* when the column is left with zero bars.
C14_ColumnPersists ==
    /\ DOMAIN pre_columns \subseteq DOMAIN columns
    /\ DOMAIN columns # DOMAIN pre_columns =>
          /\ last_op.name = "on_key_press"
          /\ DOMAIN columns \ DOMAIN pre_columns = {last_op.key}
          /\ columns[last_op.key].press_count = 1
    /\ last_op.name \in {"on_key_release", "update", "remove_offscreen"} =>
          \A k \in DOMAIN pre_columns :
              /\ k \in DOMAIN columns
              /\ columns[k].press_count = pre_columns[k].press_count
              /\ last_op.name # "on_key_release" =>
                    columns[k].is_held = pre_columns[k].is_held

\* C14 witness: a cull empties a held column with press_count 2; the column
\* is still there, held, with press_count 2 and no bars
C14_Witness ==
    /\ last_op.name = "remove_offscreen"
    /\ \E k \in DOMAIN pre_columns :
          /\ pre_columns[k].bars # << >>
          /\ pre_columns[k].is_held
          /\ pre_columns[k].press_count = 2
          /\ k \in DOMAIN columns
          /\ columns[k].bars = << >>
          /\ columns[k].is_held
          /\ columns[k].press_count = 2

----------------------------------------------------------------------------
\* Properties of the Layout Calculator (checked under LayoutSpec)

\* key_size*size_multiplier + 2*outline_thickness + margin for key i
ColumnWidthOf(cfg, i) ==
    (cfg.key_size * cfg.keys[i].size) \div 10 + 2 * cfg.outline_thickness + cfg.margin

\* cfg without its last key
WithoutLastKey(cfg) == [cfg EXCEPT !.keys = SubSeq(@, 1, Len(@) - 1)]

WidthIsFormula ==
    /\ last_op.width = config.margin
          + SumOver([i \in 1..Len(config.keys) |-> ColumnWidthOf(config, i)],
                    1..Len(config.keys))
    /\ config.keys = << >> => last_op.width = config.margin
    /\ ( /\ config.key_size = 700 /\ config.margin = 250
         /\ config.outline_thickness = 50
         /\ Len(config.keys) = 2
         /\ config.keys[1].size = 10 /\ config.keys[2].size = 10 )
       => last_op.width = 2350

\* the statement of C16 as the specification words it: the width is the
\* formula, 235 in the example, margin for no keys, and strictly larger than
\* the width without the last key whenever that key has a positive size
C16_AsStated ==
    last_op.name = "calculate_window_width" =>
        /\ WidthIsFormula
        /\ ( /\ config.keys # << >>
             /\ config.key_size * Last(config.keys).size > 0 )
           => last_op.width > calculate_window_width(WithoutLastKey(config))

\* C16 (amended): calculate_window_width(config) is margin plus the sum over
\* the keys of (key_size*size_multiplier + 2*outline_thickness + margin); 235
\* in the example; margin for an empty key list; and it strictly increases
\* when a key of positive size is appended, provided margin and
\* outline_thickness are not negative.
C16_WindowWidth ==
    last_op.name = "calculate_window_width" =>
        /\ WidthIsFormula
        /\ ( /\ config.keys # << >>
             /\ config.key_size * Last(config.keys).size > 0
             /\ config.margin >= 0
             /\ config.outline_thickness >= 0 )
           => last_op.width > calculate_window_width(WithoutLastKey(config))

\* C16 witness: the example configuration with a third key of positive size
\* appended: the width is 235 + 105
C16_Witness ==
    /\ last_op.name = "calculate_window_width"
    /\ config.key_size = 700 /\ config.margin = 250 /\ config.outline_thickness = 50
    /\ Len(config.keys) = 3
    /\ \A i \in 1..3 : config.keys[i].size = 10
    /\ calculate_window_width(WithoutLastKey(config)) = 2350
    /\ last_op.width = 3400

OffsetsAreRunningSums ==
    /\ Len(key_positions) = Len(config.keys)
    /\ \A i \in 1..Len(config.keys) :
          key_positions[i] = config.margin
              + SumOver([j \in 1..(i - 1) |-> ColumnWidthOf(config, j)], 1..(i - 1))
    /\ config.keys # << >> => key_positions[1] = config.margin

NoOverlapIncreasing ==
    \A i \in 1..(Len(config.keys) - 1) :
        /\ key_positions[i] < key_positions[i + 1]
        /\ key_positions[i] + ColumnWidthOf(config, i) <= key_positions[i + 1]

----------------------------------------------------------------------------
\* Properties of the Fade Compositor (checked under FadeSpec)

\* C18: calculate_fade_alpha(y, window_height, fade_height) is, for all
\* inputs: if fade_height <= 0, 1 when y < window_height and 0 otherwise;
\* else 1 if y <= window_height - fade_height; else 0 if y >= window_height;
\* else 1 - (y - (window_height - fade_height)) / fade_height (here: to the
\* thousandth).  With window_height 700 and fade_height 140 it is 1.0 at
\* y = 100, 0.5 at y = 630 and 0.0 at y = 700.
C18_FadeAlpha ==
    last_op.name = "calculate_fade_alpha" =>
        LET y  == last_op.y_position
            wh == last_op.window_height
            fh == last_op.fade_height
            a  == last_op.alpha
        IN  /\ fh <= 0 => a = (IF y < wh THEN 1000 ELSE 0)
            /\ (fh > 0 /\ y <= wh - fh) => a = 1000
            /\ (fh > 0 /\ y > wh - fh /\ y >= wh) => a = 0
            /\ (fh > 0 /\ y > wh - fh /\ y < wh) =>
                  /\ fh * (1000 - a) <= 1000 * (y - (wh - fh))
                  /\ 1000 * (y - (wh - fh)) < fh * (1000 - a + 1)
            /\ (wh = 7000 /\ fh = 1400 /\ y = 1000) => a = 1000
            /\ (wh = 7000 /\ fh = 1400 /\ y = 6300) => a = 500
            /\ (wh = 7000 /\ fh = 1400 /\ y = 7000) => a = 0

\* C18 witness: the middle of the fade region of the example, alpha 0.5
C18_Witness ==
    /\ last_op.name = "calculate_fade_alpha"
    /\ last_op.window_height = 7000
    /\ last_op.fade_height = 1400
    /\ last_op.y_position = 6300
    /\ last_op.alpha = 500

----------------------------------------------------------------------------
\* Properties of the window size reconciliation

\* the reload applied in the tick of the last frame found the window at the
\* size desired by the configuration of before
ReloadAtDesiredSize ==
    /\ last_op.name = "sync_window_size"
    /\ hist.drained # << >>
    /\ last_op.current = <<calculate_window_width(hist.start.config),
                           hist.start.config.height>>

\* the reload changed the key set, a size or the height
ReloadChangesLayout ==
    \/ hist.start.config.keys # config.keys
    \/ hist.start.config.key_size # config.key_size
    \/ hist.start.config.margin # config.margin
    \/ hist.start.config.outline_thickness # config.outline_thickness
    \/ hist.start.config.height # config.height

\* the new desired size is more than 0.5 px away from the old one
ReloadMovesDesiredSize ==
    \/ Abs(calculate_window_width(config)
             - calculate_window_width(hist.start.config)) > WINDOW_SIZE_EPSILON
    \/ Abs(config.height - hist.start.config.height) > WINDOW_SIZE_EPSILON

\* C30 (as amended): in each frame the Renderer asks the host window to resize
\* to [layout width of the active configuration, configured height] exactly
\* when the current window size differs from that size by more than 0.5 px in
\* width or in height, and the window then has that size, otherwise the size
\* it had; a reload that finds the window at the old desired size and moves
\* the desired size by more than 0.5 px in width or in height is followed by a
\* resize request in the frame of the tick that applied it, any other such
\* reload by none.
C30_ResizeBeyondEpsilon ==
    last_op.name = "sync_window_size" =>
       LET width == calculate_window_width(config)
           beyond == \/ last_op.current[1] - width > 5
                     \/ width - last_op.current[1] > 5
                     \/ last_op.current[2] - config.height > 5
                     \/ config.height - last_op.current[2] > 5
       IN  /\ last_op.desired = <<width, config.height>>
           /\ last_op.requested <=> beyond
           /\ window_size = IF beyond THEN <<width, config.height>>
                            ELSE last_op.current
           /\ ReloadAtDesiredSize =>
                 (last_op.requested <=> ReloadMovesDesiredSize)

\* a reload that raises the height from 60 to 60.6 px is followed by a resize
\* request in the same tick
C30_Witness ==
    /\ ReloadAtDesiredSize
    /\ hist.start.config = InitialConfig
    /\ config = [InitialConfig EXCEPT !.height = 606]
    /\ last_op.requested
    /\ window_size = <<2700, 606>>

\* C30 as stated: every reload that changes the key set, a size or the height
\* is followed by a resize request in the same tick
C30_AsStated ==
    (ReloadAtDesiredSize /\ ReloadChangesLayout) => last_op.requested

----------------------------------------------------------------------------
\* The unfocused cancel key (checked under DetectorSpec)

\* C35: an Escape press processed while the window is not focused does not
\* request close and leaves escape_down and last_escape_press_at as they
\* were; the Animation Engine gets it as any press: the Escape column has one
\* more bar, one more press and is held.
C35_UnfocusedPress ==
    (/\ last_op.name = "detector"
     /\ last_op.ev = KeyPress(ESCAPE_KEY_NAME)
     /\ ~last_op.focused) =>
        /\ ~last_op.result
        /\ escape_down = last_op.down_before
        /\ last_escape_press_at = last_op.armed_before
        /\ ESCAPE_KEY_NAME \in DOMAIN columns
        /\ columns[ESCAPE_KEY_NAME].is_held
        /\ LET before == IF ESCAPE_KEY_NAME \in DOMAIN pre_columns
                         THEN pre_columns[ESCAPE_KEY_NAME]
                         ELSE [bars |-> << >>, press_count |-> 0]
           IN  /\ Len(columns[ESCAPE_KEY_NAME].bars) = Len(before.bars) + 1
               /\ columns[ESCAPE_KEY_NAME].press_count = before.press_count + 1

\* an unfocused press that a focused tick would have counted as the second
\* tap: the detector is armed, Escape is up, and the interval has not passed
C35_Witness ==
    /\ last_op.name = "detector"
    /\ last_op.ev = KeyPress(ESCAPE_KEY_NAME)
    /\ ~last_op.focused
    /\ ~last_op.down_before
    /\ last_op.armed_before # None
    /\ last_op.at - last_op.armed_before[1] <= 4
    /\ ~should_close
    /\ columns[ESCAPE_KEY_NAME].press_count = 2

----------------------------------------------------------------------------
\* The colour of a column (checked under Spec)

\* the key names of a configuration
KeyNames(cfg) == {cfg.keys[i].key_name : i \in 1..Len(cfg.keys)}

\* the colour of the first key named k in the key list of cfg
KeyColor(cfg, k) ==
    cfg.keys[CHOOSE i \in 1..Len(cfg.keys) :
                /\ cfg.keys[i].key_name = k
                /\ \A j \in 1..(i - 1) : cfg.keys[j].key_name # k].color

\* C36: every bar carries the colour of its column and the pressed colour
\* derived from it; a column gets its colour when it is created, from the key
\* in the configuration active at that press, and keeps it in every later
\* step, whatever colour later configurations give the key.
C36_ColumnColour ==
    /\ [](\A k \in DOMAIN columns :
             \A i \in 1..Len(columns[k].bars) :
                /\ columns[k].bars[i].color = columns[k].color
                /\ columns[k].bars[i].pressed_color = pressed(columns[k].color))
    /\ [][\A k \in DOMAIN columns' :
             IF k \in DOMAIN columns
             THEN columns'[k].color = columns[k].color
             ELSE /\ k \in KeyNames(config)
                  /\ columns'[k].color = KeyColor(config, k)]_vars

\* Z was first pressed while red; a reload has made it cyan; the bar of the
\* press applied last is red
C36_Witness ==
    /\ last_op.name = "apply"
    /\ last_op.ev = KeyPress("Z")
    /\ "Z" \in KeyNames(config)
    /\ KeyColor(config, "Z") = Cyan
    /\ columns["Z"].press_count = 2
    /\ Last(columns["Z"].bars).color = Red
    /\ Last(columns["Z"].bars).pressed_color = pressed(Red)

----------------------------------------------------------------------------
\* The instants the double-tap interval is measured between (checked under
\* TapSpec)

\* the events applied so far by the tick in progress (or by the last tick)
Applied == hist.calls

\* the last three events applied by the tick are Escape press, release, press
\* and the first of them found Escape up
TapInOneTick ==
    /\ last_op.name = "tap_apply"
    /\ last_op.focused
    /\ Len(Applied) >= 3
    /\ Applied[Len(Applied) - 2].ev = KeyPress(ESCAPE_KEY_NAME)
    /\ ~Applied[Len(Applied) - 2].down_before
    /\ Applied[Len(Applied) - 1].ev = KeyRelease(ESCAPE_KEY_NAME)
    /\ Applied[Len(Applied)].ev = KeyPress(ESCAPE_KEY_NAME)

----------------------------------------------------------------------------
\* Delivery of the snapshots (checked under LiveSpec)

\* the snapshot the Config Source enqueued last (there is one)
LastDelivered ==
    load_from_str(reloads[CHOOSE i \in ParsedReloads :
                             \A j \in ParsedReloads : j <= i])[1]

\* the active configuration is up to date with the Config Source
UpToDate ==
    /\ config_q = << >>
    /\ hist.cfg_applied = hist.cfg_sent
    /\ ParsedReloads # {} => config = LastDelivered

\* C40: for every interleaving of the Config Source with the ticks, the
\* snapshots enqueued and not yet applied are in the queue, in the order sent,
\* none missing; when the config drain of a tick ends, every snapshot enqueued
\* before, in particular one enqueued after the drain of the tick before, has
\* been applied and the active configuration is the last one enqueued; and
\* once the Config Source has stopped, the ticks lead to a state in which the
\* active configuration is the last snapshot enqueued, unless the window has
\* closed first.
C40_NoSnapshotLost ==
    /\ [](/\ SeqsOf(config_q) =
               [i \in 1..Len(config_q) |-> hist.cfg_applied + i]
          /\ hist.cfg_applied + Len(config_q) = hist.cfg_sent
          /\ \A i \in 1..Len(config_q) :
                \E j \in ParsedReloads :
                   /\ Cardinality({m \in ParsedReloads : m <= j}) = config_q[i].seq
                   /\ config_q[i].cfg = load_from_str(reloads[j])[1])
    /\ [](last_op.name = "config_drained" => UpToDate)
    /\ []((config_q = << >> /\ ParsedReloads # {}) => config = LastDelivered)
    /\ ((Len(reloads) = MaxConfigs) ~> (UpToDate \/ pc = "closed"))

\* the second snapshot was enqueued after the drain of the tick before (at
\* the end of that tick two were sent and one applied); the drain of this tick
\* has applied it
C40_Witness ==
    /\ last_op.name = "config_drained"
    /\ Len(last_op.drained) = 1
    /\ hist.cfg_sent = 2
    /\ hist.cfg_sent_at_start = 2
    /\ hist.cfg_applied_at_start = 1
    /\ hist.cfg_applied = 2
    /\ config = LastDelivered
    /\ config # last_op.start.config

----------------------------------------------------------------------------
\* Properties of the Renderer

\* C31: while the active configuration has an empty key list, a press or a
\* release leaves every Bar Column as it was (none is created, no bar is
\* appended), and draw hands no bar to draw_column_bars.
C31_EmptyKeyList ==
    config.keys = << >> =>
       /\ drawn_bars(config, key_positions, columns) = {}
       /\ last_op.name \in {"on_key_press", "on_key_release"} =>
             /\ DOMAIN columns = DOMAIN pre_columns
             /\ \A k \in DOMAIN columns :
                   /\ columns[k].bars = pre_columns[k].bars
                   /\ columns[k].press_count = pre_columns[k].press_count

\* a press of Z under an empty key list, with a column of Z (and its bar) left
\* from the configuration of before
C31_Witness ==
    /\ config.keys = << >>
    /\ last_op.name = "on_key_press"
    /\ last_op.key = "Z"
    /\ "Z" \in DOMAIN columns
    /\ Len(columns["Z"].bars) = 1
    /\ hist.calls = <<"on_key_press", "set_config", "on_key_press">>

----------------------------------------------------------------------------
\* Properties of the shutdown of the input thread

----------------------------------------------------------------------------
\* Order of the bars of a column (checked under BarSpec)

\* the bars of a column from the n-th on
BarsFrom(bars, n) == SubSeq(bars, n, Len(bars))

\* C33: within each column the y_position values are non-increasing from the
\* first bar to the last; remove_offscreen therefore removes a prefix of the
\* column (what is left is the column from some bar on), on_key_press puts
\* the new bar after the others, and on_key_release and update keep the
\* number and the order of the bars, so the bars stay in creation order.
C33_BarsOrdered ==
    /\ \A k \in DOMAIN columns :
          \A i \in 1..(Len(columns[k].bars) - 1) :
             columns[k].bars[i].y_position >= columns[k].bars[i + 1].y_position
    /\ last_op.name = "remove_offscreen" =>
          \A k \in DOMAIN columns :
             \E n \in 1..(Len(pre_columns[k].bars) + 1) :
                columns[k].bars = BarsFrom(pre_columns[k].bars, n)
    /\ last_op.name = "on_key_press" =>
          BarsFrom(columns[last_op.key].bars, Len(columns[last_op.key].bars))
             = <<[y_position |-> 0, height |-> 10,
                  color |-> columns[last_op.key].color,
                  pressed_color |-> pressed(columns[last_op.key].color)]>>
    /\ last_op.name \in {"on_key_release", "update"} =>
          \A k \in DOMAIN columns :
             /\ Len(columns[k].bars) = Len(pre_columns[k].bars)
             /\ \A i \in 1..Len(columns[k].bars) :
                   /\ columns[k].bars[i].color = pre_columns[k].bars[i].color
                   /\ columns[k].bars[i].y_position
                         - pre_columns[k].bars[i].y_position
                      = columns[k].bars[1].y_position
                         - pre_columns[k].bars[1].y_position

\* a cull that removes the older of two bars and keeps the newer one, which
\* lies strictly inside the window
C33_Witness ==
    /\ last_op.name = "remove_offscreen"
    /\ \E k \in DOMAIN pre_columns :
          /\ Len(pre_columns[k].bars) = 2
          /\ pre_columns[k].bars[1].y_position > last_op.window_height
          /\ pre_columns[k].bars[2].y_position < last_op.window_height
          /\ pre_columns[k].bars[2].y_position > 0
          /\ columns[k].bars = BarsFrom(pre_columns[k].bars, 2)

----------------------------------------------------------------------------
\* Input events and the key list (checked under Spec)

\* C34: while a tick applies its events the active configuration is the one
\* its config drain left; a KeyPress or MousePress of a key that is not in
\* that configuration's key list leaves every column as it was (none created,
\* no bar, no press_count change); a KeyRelease or MouseRelease clears is_held
\* on the key's column if there is one, whether or not the key is in the key
\* list, and changes nothing else.
C34_UnknownKey ==
    /\ pc = "apply" => config = hist.start.config
    /\ last_op.name = "apply" =>
          LET ev == last_op.ev
          IN  /\ (ev.kind \in {"KeyPress", "MousePress"}
                    /\ ev.key \notin KeyNames(config)) => columns = pre_columns
              /\ ev.kind \in {"KeyRelease", "MouseRelease"} =>
                    /\ DOMAIN columns = DOMAIN pre_columns
                    /\ \A k \in DOMAIN columns :
                          columns[k] =
                             IF k = ev.key
                             THEN [pre_columns[k] EXCEPT !.is_held = FALSE]
                             ELSE pre_columns[k]

\* Escape was pressed, a reload then removed it from the key list while it
\* was held, and its release has cleared is_held
C34_Witness ==
    /\ last_op.name = "apply"
    /\ last_op.ev = KeyRelease(ESCAPE_KEY_NAME)
    /\ ESCAPE_KEY_NAME \notin KeyNames(config)
    /\ ESCAPE_KEY_NAME \in DOMAIN pre_columns
    /\ pre_columns[ESCAPE_KEY_NAME].is_held
    /\ ~columns[ESCAPE_KEY_NAME].is_held

----------------------------------------------------------------------------
\* The stored key positions (checked under RendererSpec)

\* C37: in every Renderer state the stored key positions are the Layout
\* Calculator's offsets for the active configuration: one per configured key,
\* in key order, the first at the margin and each next one a column width
\* further, so draw skips no configured key.
C37_KeyPositions ==
    /\ key_positions = calculate_key_x_positions(config)
    /\ Len(key_positions) = Len(config.keys)
    /\ \A i \in 1..Len(config.keys) :
          key_positions[i] =
             IF i = 1 THEN config.margin
             ELSE key_positions[i - 1] + ColumnWidthOf(config, i - 1)
    /\ drawn_keys(config, key_positions) = 1..Len(config.keys)

\* a reload from two keys to three: the third key has its position
C37_Witness ==
    /\ last_op.name = "set_config"
    /\ Len(last_op.before.config.keys) = 2
    /\ Len(config.keys) = 3
    /\ key_positions = <<250, 1300, 2700>>
    /\ 3 \in drawn_keys(config, key_positions)

\* C38: set_config makes the snapshot the active configuration, stores its
\* key offsets and its bar_speed, and changes nothing else: every column,
\* with its bars, press_count and is_held, is as before, also the columns of
\* keys that the new key list does not contain, and so is last_frame_time.
C38_SetConfigKeepsColumns ==
    last_op.name = "set_config" =>
       /\ columns = pre_columns
       /\ last_frame_time = last_op.before.last_frame_time
       /\ config = last_op.snapshot
       /\ config # last_op.before.config
       /\ bar_speed = last_op.snapshot.bar_speed
       /\ key_positions = calculate_key_x_positions(last_op.snapshot)

\* the reload removes Escape from the key list while its column is held and
\* its bar has moved and grown
C38_Witness ==
    /\ last_op.name = "set_config"
    /\ ESCAPE_KEY_NAME \in KeyNames(last_op.before.config)
    /\ ESCAPE_KEY_NAME \notin KeyNames(config)
    /\ ESCAPE_KEY_NAME \in DOMAIN columns
    /\ columns[ESCAPE_KEY_NAME].is_held
    /\ columns[ESCAPE_KEY_NAME].press_count = 1
    /\ Len(columns[ESCAPE_KEY_NAME].bars) = 1
    /\ columns[ESCAPE_KEY_NAME].bars[1].y_position > 0
    /\ columns[ESCAPE_KEY_NAME].bars[1].height > 10

====
